---- MODULE Spec2Model ----
(***************************************************************************)
(* Scoratis backend: the chat, journal, folder and video-search handlers   *)
(* of main_professional.py on top of the tables of database.py.            *)
(*                                                                         *)
(* Every DatabaseManager.execute_query call opens its own connection and   *)
(* commits, so one SQL statement is one atomic step.  A request handler is *)
(* a process that walks through its statements; Flask's development server *)
(* handles requests in threads, so handlers may interleave.                *)
(***************************************************************************)
EXTENDS Integers, Sequences, FiniteSets, TLC

(***************************************************************************)
(* Bounds of the model                                                     *)
(***************************************************************************)
NumProcs == 2          \* request handlers that may be in flight together
MaxReqs == 3           \* requests started in a run of Spec
MaxReqsW == 7          \* chat requests started in a run of SpecWindow
MaxReqsO == 1          \* SpecWindow: a chat of the other session is among the first MaxReqsO requests
MaxReqsC == 2          \* requests started in a run of SpecConc
MaxClock == 1          \* last value of CURRENT_TIMESTAMP
MaxConvId == 2         \* largest conversation id a delete / restore request names
MaxReqsP == 4          \* requests started in a run of SpecPurge
MaxReqsT == 4          \* requests started in a run of SpecPurgeConc
MaxReqsJ == 3          \* requests started in a run of SpecJournal
MaxReqsF == 4          \* requests started in a run of SpecFolder
MaxReqsG == 3          \* requests started in a run of SpecFolderConc
MaxReqsV == 2          \* requests started in a run of SpecVideo
MaxRowId == 1          \* largest journal or folder id a request names
MaxItems == 2          \* videos in one answer of the search provider
MaxReqsB == 1          \* requests started in a run of SpecFallback
MaxReqsD == 2          \* requests started in a run of SpecFallbackState
MaxReqsL == 2          \* requests started in a run of SpecLive
MaxReqsU == 1          \* requests started in a run of SpecDuration
MaxReqsH == 6          \* requests started in a run of SpecListing
MaxReqsR == 2          \* requests started in a run of SpecTitleRace
MaxReqsM == 3          \* requests started in a run of SpecMessages
MaxReqsN == 3          \* calls made in a run of SpecOwners

(***************************************************************************)
(* Program constants                                                       *)
(***************************************************************************)
WindowSize == 10       \* conversation_memory[session_id][-10:]
TitleLen == 50         \* user_message[:50]
ShortLen == 15         \* len(msg_lower) < 15
SubstantialLen == 30   \* len(msg_lower) > 30
DefaultUser == 1       \* user_id=1
HistoryCap == 50       \* min(int(limit), 50) of GET /chat/history
TrashCap == 100        \* min(int(limit), 100) of GET /chat/trash
VideoHistoryCap == 100 \* min(int(limit), 100) of GET /videos/history
SearchCap == 25        \* min(int(max_results), 25) of GET /videos/search
DefaultMaxResults == 12 \* request.args.get('max_results', 12)

Procs == 1..NumProcs

\* SQL NULL / Python None; a present value v is <<v>>
NULL == <<>>
Some(v) == <<v>>

(***************************************************************************)
(* Python string operations, on TLA+ strings                               *)
(***************************************************************************)
UpperChars == "ABCDEFGHIJKLMNOPQRSTUVWXYZ"
LowerChars == "abcdefghijklmnopqrstuvwxyz"

Char(s, i) == SubSeq(s, i, i)

\* str.lower() on one character
LowerChar(c) ==
    IF \E i \in 1..26 : Char(UpperChars, i) = c
    THEN Char(LowerChars, CHOOSE i \in 1..26 : Char(UpperChars, i) = c)
    ELSE c

RECURSIVE LowerFrom(_, _)
LowerFrom(s, i) ==
    IF i > Len(s) THEN "" ELSE LowerChar(Char(s, i)) \o LowerFrom(s, i + 1)

\* str.lower()
ToLower(s) == LowerFrom(s, 1)

IsSpace(c) == c = " "

\* str.strip(): drop leading and trailing whitespace
Strip(s) ==
    LET idx == {i \in 1..Len(s) : ~IsSpace(Char(s, i))}
    IN  IF idx = {} THEN ""
        ELSE LET lo == CHOOSE i \in idx : \A j \in idx : i <= j
                 hi == CHOOSE i \in idx : \A j \in idx : i >= j
             IN  SubSeq(s, lo, hi)

\* w in s
Contains(s, w) ==
    \E i \in 1..(Len(s) - Len(w) + 1) : SubSeq(s, i, i + Len(w) - 1) = w

\* any(w in s for w in ws)
ContainsAny(s, ws) == \E w \in ws : Contains(s, w)

\* s[:n]
Prefix(s, n) == IF Len(s) <= n THEN s ELSE SubSeq(s, 1, n)

\* seq[-n:]
LastN(seq, n) ==
    IF Len(seq) <= n THEN seq ELSE SubSeq(seq, Len(seq) - n + 1, Len(seq))

(***************************************************************************)
(* chat.generate_fallback: the rule cascade, first match wins.  The em     *)
(* dash of the torque template is written "-".                             *)
(***************************************************************************)
OverwhelmWords ==
    {"everything", "nothing", "all of it", "all",
     "i am not understanding anything", "not understanding"}
PhysicsWords == {"force", "gravity", "spin", "rotation", "centrifugal", "weight"}
ConfusionPhrases == {"don't know", "dont know", "idk", "confused", "no idea"}
RotationWords == {"rotation", "spin", "turn"}
ShortVocabulary == {"rotation", "physics", "hard", "difficult", "clear", "small", "tiny"}
LearnPhrases == {"teach me", "learn", "start", "beginning", "begenning"}

ReplyOverwhelm == "Feeling overwhelmed? Let's start with something tiny and concrete. Picture a door opening - that's rotation! What makes a door easy or hard to push open?"
ReplySubstantial == "Excellent thinking! You mentioned forces - that's exactly the right track. Now here's a key question: if you spin a coin on a table, what do you think slows it down and makes it stop?"
ReplyTorque == "You're unsure what torque means. Quick anchor: torque is the 'twist' effect of a force-pushing farther from the pivot makes rotation easier. If you push a door near the hinges vs the handle, where does the same push create more rotation?"
ReplyRotation == "You're feeling lost about rotation. Here's a simple start: rotation is just spinning around a center point, like a wheel or door. What happens when you try to stop a spinning coin with your finger?"
ReplyConfused == "That's completely normal when learning something new! Let's try a concrete example: imagine pushing a door. Would it be easier to push near the hinges or near the handle?"
ReplyTypo == "I'm assuming you meant 'torque' (the twist-force that causes rotation). Torque is like the 'oomph' that makes things spin. Are you asking how torque differs from regular force?"
ReplyShort(m) == "You said '" \o m \o "'. Let's connect this to something you can picture. Think of a spinning coin - what do you think makes it start spinning, and what makes it wobble and fall over?"
ReplyLearn == "Perfect! You want to learn from the beginning. Let's start with the most basic question: when you open a door, do you push near the hinges or near the handle? Why do you think that is?"
ReplySpace == "You're asking about torque vs space concepts. Torque is about causing rotation; space is where things exist and move. Are you wondering how rotational motion works in different environments?"
ReplyDefault(m) == "I hear you saying '" \o m \o "'. Let's make this super concrete: imagine you're trying to loosen a tight jar lid. Where do you grip it, and how do you twist? What makes it easier or harder?"

generate_fallback(user_message) ==
    LET rules(msg_lower) ==
          IF ContainsAny(msg_lower, OverwhelmWords) THEN ReplyOverwhelm
          ELSE IF Len(msg_lower) > SubstantialLen /\ ContainsAny(msg_lower, PhysicsWords)
               THEN ReplySubstantial
          ELSE IF ContainsAny(msg_lower, ConfusionPhrases)
               THEN IF Contains(msg_lower, "torque") \/ Contains(msg_lower, "toque")
                    THEN ReplyTorque
                    ELSE IF ContainsAny(msg_lower, RotationWords) THEN ReplyRotation
                    ELSE ReplyConfused
          ELSE IF Contains(msg_lower, "toque") /\ ~Contains(msg_lower, "torque")
               THEN ReplyTypo
          ELSE IF Len(msg_lower) < ShortLen \/ msg_lower \in ShortVocabulary
               THEN ReplyShort(user_message)
          ELSE IF ContainsAny(msg_lower, LearnPhrases) THEN ReplyLearn
          ELSE IF Contains(msg_lower, "space")
                  /\ (Contains(msg_lower, "torque") \/ Contains(msg_lower, "rotation"))
               THEN ReplySpace
          ELSE ReplyDefault(user_message)
    IN  \* msg_lower = user_message.lower().strip(), computed once
        CHOOSE reply \in {rules(msg_lower) :
                            msg_lower \in {Strip(ToLower(user_message))}} : TRUE

(***************************************************************************)
(* State                                                                   *)
(***************************************************************************)
VARIABLES
    conversations,        \* rows of table conversations
    seq_conversations,    \* AUTOINCREMENT counter of conversations
    chat_messages,        \* rows of table chat_messages
    seq_chat_messages,    \* AUTOINCREMENT counter of chat_messages
    conversation_memory,  \* dict session_id -> list of window entries
    genai,                \* get_genai() returns a client (TRUE) or None (FALSE)
    now,                  \* CURRENT_TIMESTAMP
    req,                  \* per handler: position and locals of the request in flight
    nreq,                 \* history: requests started so far
    arrivals,             \* history: per window, every entry appended since it was created
    dr,                   \* history: the last soft delete of an active conversation
    journals,             \* rows of table journals
    seq_journals,         \* AUTOINCREMENT counter of journals
    folders,              \* rows of table folders
    seq_folders,          \* AUTOINCREMENT counter of folders
    seq_tokens,           \* share tokens drawn from secrets.token_urlsafe so far
    issued,               \* history: per journal id, the share tokens written to it
    video_history,        \* rows of table video_history
    seq_video_history,    \* AUTOINCREMENT counter of video_history
    youtube_client        \* get_youtube_client() returns a client (TRUE) or None (FALSE)

vars == <<conversations, seq_conversations, chat_messages, seq_chat_messages,
          conversation_memory, genai, now, req, nreq, arrivals, dr,
          journals, seq_journals, folders, seq_folders, seq_tokens, issued,
          video_history, seq_video_history, youtube_client>>

db_vars == <<conversations, seq_conversations, chat_messages, seq_chat_messages>>
mem_vars == <<conversation_memory, arrivals>>
journal_vars == <<journals, seq_journals, folders, seq_folders, seq_tokens, issued>>
video_vars == <<video_history, seq_video_history>>

\* what the chat handlers never write
outside_chat == <<genai, journal_vars, video_vars, youtube_client>>
\* what the journal, folder and video handlers never write
chat_vars == <<db_vars, mem_vars, dr, genai, youtube_client>>

\* inputs of the requests
Sessions == {"s1", "s2"}
Long51 == "abcdefghijklmnopqrstuvwxyzabcdefghijklmnopqrstuvwxy"
Messages == {"", "Hello", Long51}
Replies == {"Why?"}
ConvIds == 1..MaxConvId

IdleReq ==
    [pc |-> "idle", op |-> "none", n |-> 0, session_id |-> "", user_message |-> "",
     phase |-> "", sender |-> "", message |-> "", conversation_id |-> 0,
     provider |-> "none", response_text |-> "", context |-> <<>>,
     permanent |-> FALSE, trashed |-> <<>>,
     status |-> 0, reply |-> "", source |-> "", before |-> <<>>, args |-> <<>>]

NoDR == [stage |-> "none", id |-> 0, title |-> NULL, messages |-> <<>>]

Init ==
    /\ conversations = {}
    /\ seq_conversations = 0
    /\ chat_messages = {}
    /\ seq_chat_messages = 0
    /\ conversation_memory = <<>>
    /\ genai \in BOOLEAN
    /\ now = 0
    /\ req = [p \in Procs |-> IdleReq]
    /\ nreq = 0
    /\ arrivals = <<>>
    /\ dr = NoDR
    /\ journals = {}
    /\ seq_journals = 0
    /\ folders = {}
    /\ seq_folders = 0
    /\ seq_tokens = 0
    /\ issued = <<>>
    /\ video_history = {}
    /\ seq_video_history = 0
    /\ youtube_client \in BOOLEAN

(***************************************************************************)
(* Helpers over rows and dicts                                             *)
(***************************************************************************)
Min(S) == CHOOSE x \in S : \A y \in S : x <= y

RECURSIVE SortedSeq(_)
SortedSeq(S) == IF S = {} THEN <<>> ELSE <<Min(S)>> \o SortedSeq(S \ {Min(S)})

\* dict with key k bound to v
DictPut(d, k, v) == [x \in DOMAIN d \cup {k} |-> IF x = k THEN v ELSE d[x]]

\* slip: the whole dict is emptied (conversation_memory.clear())
DictDelAll(d, k) == [x \in DOMAIN d \ DOMAIN d |-> d[x]]

\* del d[k]
DictDel(d, k) == [x \in DOMAIN d \ {k} |-> d[x]]

\* the rows of chat_messages of one conversation, in insertion (id) order
MessagesOf(cid) ==
    LET rows == {m \in chat_messages : m.conversation_id = cid}
        byId(i) == CHOOSE m \in rows : m.id = i
        ids == SortedSeq({m.id : m \in rows})
    IN  [k \in 1..Len(ids) |-> [sender |-> byId(ids[k]).sender,
                                message |-> byId(ids[k]).message]]

\* SELECT id FROM conversations WHERE session_id = ? AND user_id = ?
\* (table scan: rows come in id order)
SelectConversation(session_id, user_id) ==
    SortedSeq({c.id : c \in {c \in conversations :
                               c.session_id = session_id /\ c.user_id = user_id}})

\* slip: include_deleted=True adds the trashed rows instead of selecting them
get_conversation_history_all(user_id, include_deleted) ==
    {c \in conversations :
        /\ c.user_id = user_id
        /\ (~include_deleted => c.is_deleted = FALSE)}

\* WHERE clause of get_conversation_history; is_deleted is never NULL
\* (column default FALSE, only ever set to TRUE or FALSE)
get_conversation_history(user_id, include_deleted) ==
    {c \in conversations :
        /\ c.user_id = user_id
        /\ IF ~include_deleted THEN c.is_deleted = FALSE ELSE c.is_deleted = TRUE}

\* min(a, b)
Min2(a, b) == IF a <= b THEN a ELSE b

\* the number of rows a SELECT ... LIMIT ? returns out of n matching rows:
\* SQLite puts no upper bound on the rows when the limit is negative
SqlLimit(n, limit) == IF limit < 0 THEN n ELSE Min2(n, limit)

\* seq[:n], n negative counting from the end
SliceTo(seq, n) ==
    IF n >= 0 THEN SubSeq(seq, 1, Min2(n, Len(seq)))
    ELSE IF Len(seq) + n > 0 THEN SubSeq(seq, 1, Len(seq) + n)
    ELSE <<>>

\* GET /chat/history and GET /chat/trash
HistoryListing == get_conversation_history(DefaultUser, FALSE)
TrashListing == get_conversation_history(DefaultUser, TRUE)

\* the ids of the rows of a table
Ids(rows) == {r.id : r \in rows}

\* get_conversation_messages: the rows of chat_messages of the session joined
\* to a conversation of the user
get_conversation_messages(session_id, user_id) ==
    {m \in chat_messages :
        /\ m.session_id = session_id
        /\ \E c \in conversations : c.id = m.conversation_id /\ c.user_id = user_id}

\* history: the two chat tables as a request found them
ChatTables == [conversations |-> conversations, chat_messages |-> chat_messages]

\* title = user_message[:50] + ('...' if len(user_message) > 50 else '')
DeriveTitle(user_message) ==
    Prefix(user_message, TitleLen) \o (IF Len(user_message) > TitleLen THEN "..." ELSE "")

\* handler p has no request in flight: it has not served one yet, or has
\* returned the response of its last one
Free(p) == req[p].pc \in {"idle", "done"}

\* the locals of a fresh request, the (nreq + 1)-th of the run
NewReq(op) == [IdleReq EXCEPT !.op = op, !.n = nreq + 1]

\* a request may start
CanStart(p, cap, seq) ==
    /\ Free(p)
    /\ nreq < cap
    /\ seq => \A q \in Procs : Free(q)

SetReq(p, r) == req' = [req EXCEPT ![p] = r]

\* the handler returns a response
Respond(r, status, reply, source) ==
    [r EXCEPT !.pc = "done", !.status = status, !.reply = reply, !.source = source]

\* db.add_chat_message(session_id, sender, message) is entered
EnterAddChatMessage(r, phase, sender, message) ==
    [r EXCEPT !.pc = "acm_select", !.phase = phase, !.sender = sender,
              !.message = message]

\* db.add_chat_message returned: back in chat()
LeaveAddChatMessage(r) ==
    IF r.phase = "user" THEN [r EXCEPT !.pc = "append_user"]
    ELSE IF r.phase = "ai" THEN [r EXCEPT !.pc = "append_ai"]
    ELSE Respond(r, 200, r.message, "fallback")

(***************************************************************************)
(* POST /chat                                                              *)
(***************************************************************************)
\* chat(): read the request, reject an empty message, answer at once from
\* the fallback generator when there is no provider client
ChatBegin(p, S, M, cap, seq) ==
    /\ CanStart(p, cap, seq)
    /\ \E session_id \in S, raw \in M :
         LET user_message == Strip(raw)
             r == [NewReq("chat") EXCEPT !.session_id = session_id,
                                    !.user_message = user_message]
         IN  SetReq(p, IF user_message = ""
                       THEN Respond(r, 400, "", "")
                       ELSE IF ~genai
                            THEN Respond(r, 200, generate_fallback(user_message), "fallback")
                            ELSE [r EXCEPT !.pc = "mem_check"])
    /\ nreq' = nreq + 1
    /\ dr' = NoDR
    /\ UNCHANGED <<db_vars, mem_vars, outside_chat, now>>

\* if session_id not in conversation_memory
ChatMemCheck(p) ==
    /\ req[p].pc = "mem_check"
    /\ SetReq(p, IF req[p].session_id \in DOMAIN conversation_memory
                 THEN EnterAddChatMessage(req[p], "user", "user", req[p].user_message)
                 ELSE [req[p] EXCEPT !.pc = "mem_init"])
    /\ UNCHANGED <<db_vars, mem_vars, outside_chat, now, nreq, dr>>

\* conversation_memory[session_id] = []
ChatMemInit(p) ==
    /\ req[p].pc = "mem_init"
    /\ conversation_memory' = DictPut(conversation_memory, req[p].session_id, <<>>)
    /\ arrivals' = DictPut(arrivals, req[p].session_id, <<>>)
    /\ SetReq(p, EnterAddChatMessage(req[p], "user", "user", req[p].user_message))
    /\ UNCHANGED <<db_vars, outside_chat, now, nreq, dr>>

\* get_or_create_conversation: the lookup
AcmSelect(p) ==
    /\ req[p].pc = "acm_select"
    /\ LET result == SelectConversation(req[p].session_id, DefaultUser)
       IN  SetReq(p, IF result # <<>>
                     THEN [req[p] EXCEPT !.pc = "acm_insert",
                                         !.conversation_id = result[1]]
                     ELSE [req[p] EXCEPT !.pc = "acm_create"])
    /\ UNCHANGED <<db_vars, mem_vars, outside_chat, now, nreq, dr>>

\* create_conversation: INSERT INTO conversations
create_conversation(session_id, user_id, title) ==
    /\ seq_conversations' = seq_conversations + 1
    /\ conversations' = conversations \cup
         {[id |-> seq_conversations + 1, session_id |-> session_id,
           title |-> title, user_id |-> user_id, is_deleted |-> FALSE,
           deleted_at |-> NULL, updated_at |-> now]}

AcmCreate(p) ==
    /\ req[p].pc = "acm_create"
    /\ create_conversation(req[p].session_id, DefaultUser, NULL)
    /\ SetReq(p, [req[p] EXCEPT !.pc = "acm_insert",
                                !.conversation_id = seq_conversations + 1])
    /\ UNCHANGED <<chat_messages, seq_chat_messages, mem_vars, outside_chat, now, nreq, dr>>

\* add_chat_message: INSERT INTO chat_messages (foreign keys are not enforced:
\* no PRAGMA foreign_keys)
AcmInsert(p) ==
    /\ req[p].pc = "acm_insert"
    /\ seq_chat_messages' = seq_chat_messages + 1
    /\ chat_messages' = chat_messages \cup
         {[id |-> seq_chat_messages + 1, conversation_id |-> req[p].conversation_id,
           session_id |-> req[p].session_id, sender |-> req[p].sender,
           message |-> req[p].message, timestamp |-> now]}
    /\ SetReq(p, [req[p] EXCEPT !.pc = "acm_touch"])
    /\ UNCHANGED <<conversations, seq_conversations, mem_vars, outside_chat, now, nreq, dr>>

\* update_conversation_activity: UPDATE conversations SET updated_at
AcmTouch(p) ==
    /\ req[p].pc = "acm_touch"
    /\ conversations' =
         {IF c.id = req[p].conversation_id THEN [c EXCEPT !.updated_at = now] ELSE c :
            c \in conversations}
    /\ SetReq(p, IF req[p].sender = "user" /\ req[p].message # ""
                 THEN [req[p] EXCEPT !.pc = "acm_title_read"]
                 ELSE LeaveAddChatMessage(req[p]))
    /\ UNCHANGED <<seq_conversations, chat_messages, seq_chat_messages, mem_vars,
                   outside_chat, now, nreq, dr>>

\* slip: the title is rewritten on every user message
NeedsTitleAlways(result) == result # {}

\* update_conversation_activity: SELECT title
NeedsTitle(result) == result # {} /\ \A c \in result : c.title = NULL \/ c.title = Some("")

AcmTitleRead(p) ==
    /\ req[p].pc = "acm_title_read"
    /\ LET result == {c \in conversations : c.id = req[p].conversation_id}
       IN  SetReq(p, IF NeedsTitle(result)
                     THEN [req[p] EXCEPT !.pc = "acm_title_write"]
                     ELSE LeaveAddChatMessage(req[p]))
    /\ UNCHANGED <<db_vars, mem_vars, outside_chat, now, nreq, dr>>

\* update_conversation_activity: UPDATE conversations SET title
AcmTitleWrite(p) ==
    /\ req[p].pc = "acm_title_write"
    /\ conversations' =
         {IF c.id = req[p].conversation_id
          THEN [c EXCEPT !.title = Some(DeriveTitle(req[p].message))] ELSE c :
            c \in conversations}
    /\ SetReq(p, LeaveAddChatMessage(req[p]))
    /\ UNCHANGED <<seq_conversations, chat_messages, seq_chat_messages, mem_vars,
                   outside_chat, now, nreq, dr>>

\* conversation_memory[session_id].append(f"Human: {user_message}")
\* (KeyError when the entry is gone: caught by except Exception)
ChatAppendUser(p) ==
    /\ req[p].pc = "append_user"
    /\ LET s == req[p].session_id
           e == "Human: " \o req[p].user_message
       IN  IF s \in DOMAIN conversation_memory
           THEN /\ conversation_memory' =
                     [conversation_memory EXCEPT ![s] = Append(@, e)]
                /\ arrivals' = [arrivals EXCEPT ![s] = Append(@, e)]
                /\ SetReq(p, [req[p] EXCEPT !.pc = "trim"])
           ELSE /\ SetReq(p, [req[p] EXCEPT !.pc = "except"])
                /\ UNCHANGED mem_vars
    /\ UNCHANGED <<db_vars, outside_chat, now, nreq, dr>>

\* slip: conversation_memory[session_id][:10] keeps the oldest entries
TrimmedOldest(window) ==
    IF Len(window) <= WindowSize THEN window ELSE SubSeq(window, 1, WindowSize)

\* conversation_memory[session_id][-10:]
Trimmed(window) == LastN(window, WindowSize)

\* if len(conversation_memory[session_id]) > 10:
\*     conversation_memory[session_id] = conversation_memory[session_id][-10:]
ChatTrim(p) ==
    /\ req[p].pc = "trim"
    /\ LET s == req[p].session_id
       IN  IF s \in DOMAIN conversation_memory
           THEN /\ conversation_memory' =
                     [conversation_memory EXCEPT
                        ![s] = IF Len(@) > WindowSize THEN Trimmed(@) ELSE @]
                /\ SetReq(p, [req[p] EXCEPT !.pc = "build_context"])
           ELSE /\ SetReq(p, [req[p] EXCEPT !.pc = "except"])
                /\ UNCHANGED conversation_memory
    /\ UNCHANGED <<db_vars, arrivals, outside_chat, now, nreq, dr>>

\* conversation_context = "\n".join(conversation_memory[session_id])
ChatBuildContext(p) ==
    /\ req[p].pc = "build_context"
    /\ LET s == req[p].session_id
       IN  SetReq(p, IF s \in DOMAIN conversation_memory
                     THEN [req[p] EXCEPT !.pc = "provider",
                                         !.context = conversation_memory[s]]
                     ELSE [req[p] EXCEPT !.pc = "except"])
    /\ UNCHANGED <<db_vars, mem_vars, outside_chat, now, nreq, dr>>

\* model.generate_content(full_prompt): a text, or any exception (timeout included)
ChatProvider(p, R) ==
    /\ req[p].pc = "provider"
    /\ \/ \E text \in R :
            SetReq(p, EnterAddChatMessage(
                        [req[p] EXCEPT !.provider = "ok", !.response_text = text],
                        "ai", "ai", text))
       \/ SetReq(p, [req[p] EXCEPT !.pc = "except", !.provider = "failed"])
    /\ UNCHANGED <<db_vars, mem_vars, outside_chat, now, nreq, dr>>

\* conversation_memory[session_id].append(f"Scoratis: {response.text}"); return
ChatAppendAi(p) ==
    /\ req[p].pc = "append_ai"
    /\ LET s == req[p].session_id
           e == "Scoratis: " \o req[p].response_text
       IN  IF s \in DOMAIN conversation_memory
           THEN /\ conversation_memory' =
                     [conversation_memory EXCEPT ![s] = Append(@, e)]
                /\ arrivals' = [arrivals EXCEPT ![s] = Append(@, e)]
                /\ SetReq(p, Respond(req[p], 200, req[p].response_text, "ai"))
           ELSE /\ SetReq(p, [req[p] EXCEPT !.pc = "except"])
                /\ UNCHANGED mem_vars
    /\ UNCHANGED <<db_vars, outside_chat, now, nreq, dr>>

\* slip: the except branch answers with an error status
ChatExceptError(p) ==
    /\ req[p].pc = "except"
    /\ SetReq(p, Respond(req[p], 500, "", ""))
    /\ UNCHANGED <<db_vars, mem_vars, outside_chat, now, nreq, dr>>

\* slip: the generator records its reply in the session's window
ChatExceptAppending(p) ==
    /\ req[p].pc = "except"
    /\ SetReq(p, EnterAddChatMessage(req[p], "fallback", "ai",
                                     generate_fallback(req[p].user_message)))
    /\ conversation_memory' =
          DictPut(conversation_memory, req[p].session_id,
                  <<"Scoratis: " \o generate_fallback(req[p].user_message)>>)
    /\ UNCHANGED <<db_vars, arrivals, outside_chat, now, nreq, dr>>

\* except Exception: response = generate_fallback(user_message), then persist it
ChatExcept(p) ==
    /\ req[p].pc = "except"
    /\ SetReq(p, EnterAddChatMessage(req[p], "fallback", "ai",
                                     generate_fallback(req[p].user_message)))
    /\ UNCHANGED <<db_vars, mem_vars, outside_chat, now, nreq, dr>>

(***************************************************************************)
(* POST /chat/clear                                                        *)
(***************************************************************************)
\* slip: clear_chat still calling db.clear_conversation(session_id)
ClearChatRowsPurging(rows, doomed) == rows \ doomed

\* what clear_chat does to the tables: nothing (db.clear_conversation is
\* no longer called)
ClearChatRows(rows, doomed) == rows

ClearChat(p, S, cap, seq) ==
    /\ CanStart(p, cap, seq)
    /\ \E session_id \in S :
         /\ conversation_memory' = DictDel(conversation_memory, session_id)
         /\ arrivals' = DictDel(arrivals, session_id)
         /\ LET doomed == {c.id : c \in {c \in conversations :
                              c.session_id = session_id /\ c.user_id = DefaultUser}}
            IN  /\ conversations' =
                     ClearChatRows(conversations, {c \in conversations : c.id \in doomed})
                /\ chat_messages' =
                     ClearChatRows(chat_messages,
                                   {m \in chat_messages : m.conversation_id \in doomed})
         /\ SetReq(p, Respond([NewReq("clear") EXCEPT !.session_id = session_id],
                              200, "Conversation memory cleared", ""))
    /\ nreq' = nreq + 1
    /\ dr' = NoDR
    /\ UNCHANGED <<seq_conversations, seq_chat_messages, outside_chat, now>>

(***************************************************************************)
(* DELETE /chat/conversation/<id>, POST .../restore, POST /chat/trash/empty *)
(***************************************************************************)
\* UPDATE conversations SET is_deleted = TRUE, deleted_at = CURRENT_TIMESTAMP,
\* updated_at = CURRENT_TIMESTAMP WHERE id = ? AND user_id = ?
SoftDeleteRow(c) ==
    [c EXCEPT !.is_deleted = TRUE, !.deleted_at = Some(now), !.updated_at = now]

\* slip: restore forgets to clear deleted_at
RestoreRowKeepStamp(c) == [c EXCEPT !.is_deleted = FALSE, !.updated_at = now]

\* slip: restore forgets to reset is_deleted
RestoreRowStillTrashed(c) == [c EXCEPT !.deleted_at = NULL, !.updated_at = now]

\* UPDATE conversations SET is_deleted = FALSE, deleted_at = NULL,
\* updated_at = CURRENT_TIMESTAMP WHERE id = ? AND user_id = ?
RestoreRow(c) ==
    [c EXCEPT !.is_deleted = FALSE, !.deleted_at = NULL, !.updated_at = now]

\* the history variable dr after a soft delete of conversation_id
AfterSoftDelete(conversation_id) ==
    LET hit == {c \in conversations : /\ c.id = conversation_id
                                      /\ c.user_id = DefaultUser
                                      /\ c.is_deleted = FALSE}
    IN  IF hit = {} THEN NoDR
        ELSE [stage |-> "deleted", id |-> conversation_id,
              title |-> (CHOOSE c \in hit : TRUE).title,
              messages |-> MessagesOf(conversation_id)]

\* slip: permanent delete purges a conversation only out of the trash
PermanentDeleteHitsTrashed(c, conversation_id, user_id) ==
    c.id = conversation_id /\ c.user_id = user_id /\ c.is_deleted = TRUE

\* DELETE FROM conversations WHERE id = ? AND user_id = ?
PermanentDeleteHits(c, conversation_id, user_id) ==
    c.id = conversation_id /\ c.user_id = user_id

\* delete_conversation: the first statement (permanent: DELETE FROM chat_messages
\* WHERE conversation_id = ?; otherwise the soft-delete UPDATE, which is also the last)
DeleteConversationBegin(p, I, cap, seq) ==
    /\ CanStart(p, cap, seq)
    /\ \E conversation_id \in I, permanent \in BOOLEAN :
         LET r == [NewReq("delete") EXCEPT !.conversation_id = conversation_id,
                                      !.permanent = permanent,
                                      !.before = ChatTables]
         IN  IF permanent
             THEN /\ chat_messages' =
                       {m \in chat_messages : m.conversation_id # conversation_id}
                  /\ SetReq(p, [r EXCEPT !.pc = "delete_row"])
                  /\ dr' = NoDR
                  /\ UNCHANGED conversations
             ELSE /\ conversations' =
                       {IF c.id = conversation_id /\ c.user_id = DefaultUser
                        THEN SoftDeleteRow(c) ELSE c : c \in conversations}
                  /\ SetReq(p, Respond(r, 200, "Conversation moved to trash", ""))
                  /\ dr' = AfterSoftDelete(conversation_id)
                  /\ UNCHANGED chat_messages
    /\ nreq' = nreq + 1
    /\ UNCHANGED <<seq_conversations, seq_chat_messages, mem_vars, outside_chat, now>>

\* delete_conversation(permanent=True): DELETE FROM conversations
\* WHERE id = ? AND user_id = ?
DeleteConversationRow(p) ==
    /\ req[p].pc = "delete_row"
    /\ conversations' =
         {c \in conversations :
            ~PermanentDeleteHits(c, req[p].conversation_id, DefaultUser)}
    /\ SetReq(p, Respond(req[p], 200, "Conversation permanently deleted", ""))
    /\ UNCHANGED <<seq_conversations, chat_messages, seq_chat_messages, mem_vars,
                   outside_chat, now, nreq, dr>>

\* restore_conversation
RestoreConversation(p, I, cap, seq) ==
    /\ CanStart(p, cap, seq)
    /\ \E conversation_id \in I :
         /\ conversations' =
              {IF c.id = conversation_id /\ c.user_id = DefaultUser
               THEN RestoreRow(c) ELSE c : c \in conversations}
         /\ SetReq(p, Respond([NewReq("restore") EXCEPT
                                              !.conversation_id = conversation_id],
                              200, "Conversation restored successfully", ""))
         /\ dr' = IF dr.stage = "deleted" /\ dr.id = conversation_id
                  THEN [dr EXCEPT !.stage = "restored"] ELSE NoDR
    /\ nreq' = nreq + 1
    /\ UNCHANGED <<seq_conversations, chat_messages, seq_chat_messages, mem_vars,
                   outside_chat, now>>

\* slip: empty_trash forgets the is_deleted condition
EmptyTrashHitsAll(c, user_id) == c.user_id = user_id

\* WHERE user_id = ? AND is_deleted = TRUE
EmptyTrashHits(c, user_id) == c.user_id = user_id /\ c.is_deleted = TRUE

\* empty_trash: SELECT id FROM conversations WHERE user_id = ? AND is_deleted = TRUE
EmptyTrashBegin(p, cap, seq) ==
    /\ CanStart(p, cap, seq)
    /\ SetReq(p, [NewReq("empty_trash") EXCEPT
                    !.pc = "trash_messages",
                    !.before = ChatTables,
                    !.trashed = SortedSeq({c.id : c \in
                                  {c \in conversations :
                                      EmptyTrashHits(c, DefaultUser)}})])
    /\ nreq' = nreq + 1
    /\ dr' = NoDR
    /\ UNCHANGED <<db_vars, mem_vars, outside_chat, now>>

\* empty_trash: DELETE FROM chat_messages WHERE conversation_id = ?, once per row
EmptyTrashMessages(p) ==
    /\ req[p].pc = "trash_messages"
    /\ req[p].trashed # <<>>
    /\ chat_messages' =
         {m \in chat_messages : m.conversation_id # Head(req[p].trashed)}
    /\ SetReq(p, [req[p] EXCEPT !.trashed = Tail(@)])
    /\ UNCHANGED <<conversations, seq_conversations, seq_chat_messages, mem_vars,
                   outside_chat, now, nreq, dr>>

\* empty_trash: DELETE FROM conversations WHERE user_id = ? AND is_deleted = TRUE
EmptyTrashRows(p) ==
    /\ req[p].pc = "trash_messages"
    /\ req[p].trashed = <<>>
    /\ conversations' =
         {c \in conversations : ~EmptyTrashHits(c, DefaultUser)}
    /\ SetReq(p, Respond(req[p], 200, "Trash emptied successfully", ""))
    /\ UNCHANGED <<seq_conversations, chat_messages, seq_chat_messages, mem_vars,
                   outside_chat, now, nreq, dr>>

(***************************************************************************)
(* json.dumps / json.loads on a list of strings                            *)
(***************************************************************************)
RECURSIVE EscapeFrom(_, _)
EscapeFrom(t, i) ==
    IF i > Len(t) THEN ""
    ELSE LET ch == Char(t, i)
         IN  (IF ch = "\"" \/ ch = "\\" THEN "\\" \o ch ELSE ch) \o EscapeFrom(t, i + 1)

\* slip: a string is written between quotes without escaping
JsonStringRaw(t) == "\"" \o t \o "\""

\* the JSON literal of a str: quote and backslash are escaped
JsonString(t) == "\"" \o EscapeFrom(t, 1) \o "\""

RECURSIVE JoinItems(_)
JoinItems(tags) ==
    IF tags = <<>> THEN ""
    ELSE IF Len(tags) = 1 THEN JsonString(tags[1])
    ELSE JsonString(Head(tags)) \o ", " \o JoinItems(Tail(tags))

\* json.dumps(tags), tags a list of str
json_dumps(tags) == "[" \o JoinItems(tags) \o "]"

\* the scanner of json.loads on an array of strings: outside a string, in a
\* string, after a backslash in a string
RECURSIVE ParseJson(_, _, _, _, _)
ParseJson(t, i, mode, cur, acc) ==
    IF i > Len(t) THEN acc
    ELSE LET ch == Char(t, i)
         IN  IF mode = "out"
             THEN ParseJson(t, i + 1, IF ch = "\"" THEN "in" ELSE "out", "", acc)
             ELSE IF mode = "esc" THEN ParseJson(t, i + 1, "in", cur \o ch, acc)
             ELSE IF ch = "\\" THEN ParseJson(t, i + 1, "esc", cur, acc)
             ELSE IF ch = "\"" THEN ParseJson(t, i + 1, "out", "", Append(acc, cur))
             ELSE ParseJson(t, i + 1, "in", cur \o ch, acc)

\* json.loads(text)
json_loads(t) == ParseJson(t, 1, "out", "", <<>>)

(***************************************************************************)
(* GET /chat/conversation/<session_id>                                     *)
(***************************************************************************)
\* the columns the SELECT returns: cm.sender, cm.message, cm.timestamp
MessageColumns(m) ==
    [sender |-> m.sender, message |-> m.message, timestamp |-> m.timestamp]

\* ORDER BY cm.timestamp ASC with no further key: every arrangement of the
\* rows with non-decreasing timestamps is a result SQL allows; rows of equal
\* timestamp come in an order the query does not determine
OrderedByTimestamp(rows) ==
    {s \in [1..Cardinality(rows) -> rows] :
        /\ \A i, j \in DOMAIN s : i < j =>
              /\ s[i] # s[j]
              /\ s[i].timestamp <= s[j].timestamp}

\* get_conversation_messages(session_id): the response holds the rows in the
\* order the SELECT returned them
GetConversationMessages(p, S, cap, seq) ==
    /\ CanStart(p, cap, seq)
    /\ \E session_id \in S :
       \E result \in OrderedByTimestamp(get_conversation_messages(session_id, DefaultUser)) :
         SetReq(p, Respond([NewReq("get_conversation_messages") EXCEPT
                              !.session_id = session_id,
                              !.before = ChatTables,
                              !.args = [messages |->
                                          [i \in DOMAIN result |->
                                              MessageColumns(result[i])]]],
                           200, "", ""))
    /\ nreq' = nreq + 1
    /\ UNCHANGED <<db_vars, mem_vars, outside_chat, now, dr>>

(***************************************************************************)
(* GET /chat/history and GET /chat/trash with their limit parameter        *)
(***************************************************************************)
\* GET /chat/history?limit=: limit = min(int(limit), 50); the response holds
\* the rows the SELECT returns
GetConversationHistory(p, N, cap, seq) ==
    /\ CanStart(p, cap, seq)
    /\ \E raw \in N :
         LET limit == Min2(raw, HistoryCap)
         IN  SetReq(p, Respond([NewReq("get_conversation_history") EXCEPT
                                  !.args = [limit |-> raw,
                                            returned |->
                                              SqlLimit(Cardinality(HistoryListing),
                                                       limit)]],
                               200, "", ""))
    /\ nreq' = nreq + 1
    /\ UNCHANGED <<db_vars, mem_vars, outside_chat, now, dr>>

\* GET /chat/trash?limit=: limit = min(int(limit), 100)
GetTrash(p, N, cap, seq) ==
    /\ CanStart(p, cap, seq)
    /\ \E raw \in N :
         LET limit == Min2(raw, TrashCap)
         IN  SetReq(p, Respond([NewReq("get_trash") EXCEPT
                                  !.args = [limit |-> raw,
                                            returned |->
                                              SqlLimit(Cardinality(TrashListing),
                                                       limit)]],
                               200, "", ""))
    /\ nreq' = nreq + 1
    /\ UNCHANGED <<db_vars, mem_vars, outside_chat, now, dr>>

(***************************************************************************)
(* Journals and folders                                                    *)
(***************************************************************************)
\* what the journal and folder handlers never write
outside_journal == <<chat_vars, video_vars, now>>

RowIds == 1..MaxRowId

\* history: the journal and folder tables as a request found them
JournalTables == [journals |-> journals, folders |-> folders]

\* a statement raises (sqlite3.Error: execute_query rolls it back and re-raises)
\* or commits
StatementOutcomes == {"commit", "raise"}

\* tags_json = json.dumps(tags) if tags else None
TagsJson(tags) == IF tags # <<>> THEN Some(json_dumps(tags)) ELSE NULL

\* get_journals: journal['tags'] = json.loads(journal['tags']) if journal['tags'] else []
ParsedTags(tags_json) ==
    IF tags_json # NULL /\ tags_json # Some("") THEN json_loads(tags_json[1]) ELSE <<>>

\* LEFT JOIN folders f ON j.folder_id = f.id: f.name, NULL without a match
FolderName(folder_id) ==
    LET hit == {f \in folders : Some(f.id) = folder_id}
    IN  IF hit = {} THEN NULL ELSE Some((CHOOSE f \in hit : TRUE).name)

\* db.get_journals(user_id, folder_id): `if folder_id` skips the filter for
\* None and 0
get_journals(user_id, folder_id) ==
    {[id |-> j.id, title |-> j.title, content |-> j.content,
      tags |-> ParsedTags(j.tags), folder_id |-> j.folder_id,
      folder_name |-> FolderName(j.folder_id), user_id |-> j.user_id,
      is_shared |-> j.is_shared, share_token |-> j.share_token] :
        j \in {j \in journals :
                 /\ j.user_id = user_id
                 /\ (folder_id # NULL /\ folder_id # Some(0)) => j.folder_id = folder_id}}

\* db.get_folders(user_id)
get_folders(user_id) ==
    {[id |-> f.id, name |-> f.name, user_id |-> f.user_id,
      journal_count |-> Cardinality({j \in journals : j.folder_id = Some(f.id)})] :
        f \in {f \in folders : f.user_id = user_id}}

\* POST /journals: create_journal(); tags and folder_id go to the table as
\* they come (foreign keys are not enforced: no PRAGMA foreign_keys)
CreateJournal(p, T, C, G, F, cap, seq) ==
    /\ CanStart(p, cap, seq)
    /\ \E raw_title \in T, raw_content \in C, tags \in G, folder_id \in F :
         LET title == Strip(raw_title)
             content == Strip(raw_content)
             r == [NewReq("create_journal") EXCEPT
                     !.before = JournalTables,
                     !.args = [title |-> title, content |-> content, tags |-> tags,
                               folder_id |-> folder_id, journal_id |-> 0]]
         IN  IF title = "" \/ content = ""
             THEN /\ SetReq(p, Respond(r, 400, "Title and content are required", ""))
                  /\ UNCHANGED <<journals, seq_journals>>
             ELSE /\ journals' = journals \cup
                       {[id |-> seq_journals + 1, title |-> title, content |-> content,
                         tags |-> TagsJson(tags), folder_id |-> folder_id,
                         user_id |-> DefaultUser, is_shared |-> FALSE,
                         share_token |-> NULL, updated_at |-> now]}
                  /\ seq_journals' = seq_journals + 1
                  /\ SetReq(p, Respond([r EXCEPT !.args.journal_id = seq_journals + 1],
                                       201, "Journal created successfully", ""))
    /\ nreq' = nreq + 1
    /\ UNCHANGED <<folders, seq_folders, seq_tokens, issued, outside_journal>>

\* update_journal: `if title is not None`
Supplied(v) == v # NULL

\* slip: the tags column is rewritten by every update
UpdatedRowResetTags(j, title, content, tags, folder_id) ==
    [j EXCEPT !.title = IF Supplied(title) THEN title[1] ELSE @,
              !.content = IF Supplied(content) THEN content[1] ELSE @,
              !.tags = IF Supplied(tags) THEN Some(json_dumps(tags[1])) ELSE NULL,
              !.folder_id = IF Supplied(folder_id) THEN folder_id ELSE @,
              !.updated_at = now]

\* UPDATE journals SET <the supplied fields>, updated_at = CURRENT_TIMESTAMP
UpdatedRow(j, title, content, tags, folder_id) ==
    [j EXCEPT !.title = IF Supplied(title) THEN title[1] ELSE @,
              !.content = IF Supplied(content) THEN content[1] ELSE @,
              !.tags = IF Supplied(tags) THEN Some(json_dumps(tags[1])) ELSE @,
              !.folder_id = IF Supplied(folder_id) THEN folder_id ELSE @,
              !.updated_at = now]

\* PUT /journals/<id>: update_journal(); a field is None when the body does
\* not have it, nothing is stripped or validated
UpdateJournal(p, I, T, C, G, F, cap, seq) ==
    /\ CanStart(p, cap, seq)
    /\ \E journal_id \in I, title \in T, content \in C, tags \in G, folder_id \in F :
         LET r == [NewReq("update_journal") EXCEPT
                     !.before = JournalTables,
                     !.args = [title |-> title, content |-> content, tags |-> tags,
                               folder_id |-> folder_id, journal_id |-> journal_id]]
         IN  IF ~(Supplied(title) \/ Supplied(content) \/ Supplied(tags)
                   \/ Supplied(folder_id))
             THEN /\ SetReq(p, Respond(r, 400, "No changes made", ""))
                  /\ UNCHANGED journals
             ELSE /\ journals' =
                       {IF j.id = journal_id
                        THEN UpdatedRow(j, title, content, tags, folder_id) ELSE j :
                          j \in journals}
                  /\ SetReq(p, Respond(r, 200, "Journal updated successfully", ""))
    /\ nreq' = nreq + 1
    /\ UNCHANGED <<seq_journals, folders, seq_folders, seq_tokens, issued,
                   outside_journal>>

\* DELETE /journals/<id>: DELETE FROM journals WHERE id = ? AND user_id = ?
DeleteJournal(p, I, cap, seq) ==
    /\ CanStart(p, cap, seq)
    /\ \E journal_id \in I :
         /\ journals' =
              {j \in journals : ~(j.id = journal_id /\ j.user_id = DefaultUser)}
         /\ SetReq(p, Respond([NewReq("delete_journal") EXCEPT
                                 !.before = JournalTables,
                                 !.args = [journal_id |-> journal_id]],
                              200, "Journal deleted successfully", ""))
    /\ nreq' = nreq + 1
    /\ UNCHANGED <<seq_journals, folders, seq_folders, seq_tokens, issued,
                   outside_journal>>

\* slip: the token is regenerated only when sharing is switched on
ShareRowEnableOnly(j, share_token) ==
    [j EXCEPT !.is_shared = ~@,
              !.share_token = IF j.is_shared THEN @ ELSE Some(share_token),
              !.updated_at = now]

\* UPDATE journals SET is_shared = NOT is_shared, share_token = ?,
\* updated_at = CURRENT_TIMESTAMP
ShareRow(j, share_token) ==
    [j EXCEPT !.is_shared = ~@, !.share_token = Some(share_token), !.updated_at = now]

\* POST /journals/<id>/share: share_journal().  secrets.token_urlsafe(16) is
\* 128 random bits; the model takes its values to be pairwise different and
\* names them by the order in which they are drawn: 1, 2, ...
ShareJournal(p, I, cap, seq) ==
    /\ CanStart(p, cap, seq)
    /\ \E journal_id \in I :
         LET share_token == seq_tokens + 1
             hit == {j \in journals : j.id = journal_id /\ j.user_id = DefaultUser}
         IN  /\ seq_tokens' = share_token
             /\ journals' = {IF j \in hit THEN ShareRow(j, share_token) ELSE j :
                               j \in journals}
             /\ issued' = IF hit = {} THEN issued
                          ELSE DictPut(issued, journal_id,
                                       IF journal_id \in DOMAIN issued
                                       THEN Append(issued[journal_id], share_token)
                                       ELSE <<share_token>>)
             /\ SetReq(p, Respond([NewReq("share_journal") EXCEPT
                                     !.before = JournalTables,
                                     !.args = [journal_id |-> journal_id,
                                               share_token |-> share_token]],
                                  200, "Journal sharing toggled successfully", ""))
    /\ nreq' = nreq + 1
    /\ UNCHANGED <<seq_journals, folders, seq_folders, outside_journal>>

\* POST /folders: create_folder()
CreateFolder(p, N, cap, seq) ==
    /\ CanStart(p, cap, seq)
    /\ \E raw_name \in N :
         LET name == Strip(raw_name)
             r == [NewReq("create_folder") EXCEPT !.before = JournalTables,
                                                  !.args = [name |-> name]]
         IN  IF name = ""
             THEN /\ SetReq(p, Respond(r, 400, "Folder name is required", ""))
                  /\ UNCHANGED <<folders, seq_folders>>
             ELSE /\ folders' = folders \cup
                       {[id |-> seq_folders + 1, name |-> name,
                         user_id |-> DefaultUser, updated_at |-> now]}
                  /\ seq_folders' = seq_folders + 1
                  /\ SetReq(p, Respond(r, 201, "Folder created successfully", ""))
    /\ nreq' = nreq + 1
    /\ UNCHANGED <<journals, seq_journals, seq_tokens, issued, outside_journal>>

\* slip: the journals of the folder are deleted with it
DetachJournalsCascade(rows, folder_id) ==
    {j \in rows : j.folder_id # Some(folder_id)}

\* UPDATE journals SET folder_id = NULL WHERE folder_id = ?
DetachJournals(rows, folder_id) ==
    {IF j.folder_id = Some(folder_id) THEN [j EXCEPT !.folder_id = NULL] ELSE j :
       j \in rows}

\* DELETE /folders/<id>: delete_folder(), its first statement; an exception
\* reaches the handler, which answers 500
DeleteFolderBegin(p, I, O, cap, seq) ==
    /\ CanStart(p, cap, seq)
    /\ \E folder_id \in I, outcome \in O :
         LET r == [NewReq("delete_folder") EXCEPT !.before = JournalTables,
                                                  !.args = [folder_id |-> folder_id]]
         IN  IF outcome = "commit"
             THEN /\ journals' = DetachJournals(journals, folder_id)
                  /\ SetReq(p, [r EXCEPT !.pc = "folder_row"])
             ELSE /\ SetReq(p, Respond(r, 500, "error", ""))
                  /\ UNCHANGED journals
    /\ nreq' = nreq + 1
    /\ UNCHANGED <<seq_journals, folders, seq_folders, seq_tokens, issued,
                   outside_journal>>

\* delete_folder, its second statement: DELETE FROM folders WHERE id = ? AND user_id = ?
DeleteFolderRow(p, O) ==
    /\ req[p].pc = "folder_row"
    /\ \E outcome \in O :
         IF outcome = "commit"
         THEN /\ folders' =
                   {f \in folders :
                      ~(f.id = req[p].args.folder_id /\ f.user_id = DefaultUser)}
              /\ SetReq(p, Respond(req[p], 200, "Folder deleted successfully", ""))
         ELSE /\ SetReq(p, Respond(req[p], 500, "error", ""))
              /\ UNCHANGED folders
    /\ UNCHANGED <<journals, seq_journals, seq_folders, seq_tokens, issued,
                   outside_journal, nreq>>

(***************************************************************************)
(* GET /videos/search and the watch history                                *)
(***************************************************************************)
\* what the video handlers never write
outside_video == <<chat_vars, journal_vars>>

VideoIds == {"abc123", "dQw4w9WgXcQ"}
Queries == {"", "torque", "energy"}

RECURSIVE SeqsUpTo(_, _)
SeqsUpTo(S, n) ==
    IF n = 0 THEN {<<>>}
    ELSE SeqsUpTo(S, n - 1) \cup
         {Append(q, x) : q \in {q \in SeqsUpTo(S, n - 1) : Len(q) = n - 1}, x \in S}

\* search_response['items'], each item reduced to its videoId, its title and
\* the contentDetails.duration of its details; one answer does not name a
\* video twice
ItemLists ==
    {q \in SeqsUpTo({[video_id |-> v, title |-> "Lecture", duration |-> "PT5M9S"] :
                        v \in VideoIds}, MaxItems) :
        \A i, k \in 1..Len(q) : q[i].video_id = q[k].video_id => i = k}

\* what youtube_client ... .execute() raises
ProviderErrors == {"quotaExceeded", "forbidden", "timed out"}

\* the two fixed sample videos
SampleVideos(query) ==
    <<[video_id |-> "dQw4w9WgXcQ",
       title |-> "Educational Content: " \o query \o " - Introduction",
       duration |-> "10:30"],
      [video_id |-> "dQw4w9WgXcQ", title |-> "Advanced " \o query \o " Techniques",
       duration |-> "15:45"]>>

(***************************************************************************)
(* parse_youtube_duration                                                  *)
(***************************************************************************)
Digits == "0123456789"

IsDigit(c) == \E d \in 0..9 : Char(Digits, d + 1) = c

\* int(group) for a group of \d+
RECURSIVE ParseInt(_)
ParseInt(s) ==
    IF s = "" THEN 0
    ELSE 10 * ParseInt(SubSeq(s, 1, Len(s) - 1))
         + (CHOOSE d \in 0..9 : Char(Digits, d + 1) = Char(s, Len(s)))

\* str(n) of a natural number
RECURSIVE DecimalString(_)
DecimalString(n) ==
    IF n < 10 THEN Char(Digits, n + 1)
    ELSE DecimalString(n \div 10) \o Char(Digits, (n % 10) + 1)

\* slip: the minor fields are not padded
TwoDigitsPlain(n) == DecimalString(n)

\* f"{n:02d}"
TwoDigits(n) == IF n < 10 THEN "0" \o DecimalString(n) ELSE DecimalString(n)

\* (?:(\d+)U)? tried at position pos: the longest run of digits followed by
\* the unit letter, or the empty match with the group unset
UnitGroup(s, pos, unit) ==
    LET runs == {k \in 1..(Len(s) - pos + 1) :
                   \A i \in pos..(pos + k - 1) : IsDigit(Char(s, i))}
        k == IF runs = {} THEN 0 ELSE CHOOSE k \in runs : \A j \in runs : j <= k
    IN  IF k > 0 /\ pos + k <= Len(s) /\ Char(s, pos + k) = unit
        THEN [group |-> Some(SubSeq(s, pos, pos + k - 1)), next |-> pos + k + 1]
        ELSE [group |-> NULL, next |-> pos]

\* re.match(r'PT(?:(\d+)H)?(?:(\d+)M)?(?:(\d+)S)?', duration), then the two
\* output formats
parse_youtube_duration(duration) ==
    IF Len(duration) < 2 \/ SubSeq(duration, 1, 2) # "PT" THEN "0:00"
    ELSE LET h == UnitGroup(duration, 3, "H")
             m == UnitGroup(duration, h.next, "M")
             sec == UnitGroup(duration, m.next, "S")
             hours == IF h.group # NULL THEN ParseInt(h.group[1]) ELSE 0
             minutes == IF m.group # NULL THEN ParseInt(m.group[1]) ELSE 0
             seconds == IF sec.group # NULL THEN ParseInt(sec.group[1]) ELSE 0
         IN  IF hours > 0
             THEN DecimalString(hours) \o ":" \o TwoDigits(minutes) \o ":"
                  \o TwoDigits(seconds)
             ELSE DecimalString(minutes) \o ":" \o TwoDigits(seconds)

\* video_data, reduced to the fields the model keeps
FormattedVideo(item) ==
    [video_id |-> item.video_id, title |-> item.title,
     duration |-> parse_youtube_duration(item.duration)]

\* the status of the except branch of search_videos
ErrorStatus(e) ==
    LET error_msg == ToLower(e)
    IN  IF Contains(error_msg, "quotaexceeded") THEN 429
        ELSE IF Contains(error_msg, "keyinvalid") \/ Contains(error_msg, "forbidden")
             THEN 401
        ELSE 500

\* INSERT OR REPLACE INTO video_history: a row is replaced when the new one
\* collides with it on a PRIMARY KEY or UNIQUE constraint; the table has the
\* AUTOINCREMENT id as its only one
InsertOrReplace(rows, row) == {r \in rows : r.id # row.id} \cup {row}

\* search_videos(): validation, the sample answer without a client, the two
\* provider calls; the provider answers with at most maxResults items
SearchVideosBegin(p, Q, N, L, cap, seq) ==
    /\ CanStart(p, cap, seq)
    /\ \E raw \in Q, raw_max \in N :
         LET query == Strip(raw)
             max_results == Min2(raw_max, SearchCap)
             r == [NewReq("search_videos") EXCEPT
                     !.args = [query |-> query, found |-> <<>>, items |-> <<>>,
                               videos |-> <<>>, error |-> NULL]]
         IN  IF query = ""
             THEN SetReq(p, Respond(r, 400, "Search query is required", ""))
             ELSE IF ~youtube_client
             THEN SetReq(p, Respond([r EXCEPT !.args.videos =
                                                SliceTo(SampleVideos(query), max_results)],
                                    200, "", "sample"))
             ELSE \/ \E e \in ProviderErrors :
                       SetReq(p, Respond([r EXCEPT !.args.error = Some(e)],
                                         ErrorStatus(e), e, ""))
                  \/ \E items \in {l \in L : Len(l) <= max_results} :
                       SetReq(p, IF items = <<>>
                                 THEN Respond(r, 200, "No videos found", "")
                                 ELSE [r EXCEPT !.pc = "record", !.args.found = items,
                                                !.args.items = items])
    /\ nreq' = nreq + 1
    /\ UNCHANGED <<video_vars, outside_video, now>>

\* slip: a recording that raises ends the request in the outer except branch
AfterRecordingStrict(r, outcome) ==
    IF outcome = "raise" THEN Respond(r, 500, "Failed to fetch videos", "")
    ELSE IF r.args.items = <<>> THEN Respond(r, 200, "", "youtube")
    ELSE r

\* `except: pass` around db.add_video_to_history: the loop goes on whatever
\* the statement did, and the response follows the last item
AfterRecording(r, outcome) ==
    IF r.args.items = <<>> THEN Respond(r, 200, "", "youtube") ELSE r

\* search_videos(): one turn of the loop over the items: format the video,
\* db.add_video_to_history in a try whose except passes; the response after
\* the last item
SearchRecord(p, O) ==
    /\ req[p].pc = "record"
    /\ LET item == Head(req[p].args.items)
           r == [req[p] EXCEPT !.args.items = Tail(@),
                               !.args.videos = Append(@, FormattedVideo(item))]
       IN  /\ \E outcome \in O :
                IF outcome = "commit"
                THEN /\ video_history' =
                          InsertOrReplace(video_history,
                              [id |-> seq_video_history + 1, video_id |-> item.video_id,
                               title |-> item.title, search_query |-> req[p].args.query,
                               user_id |-> DefaultUser, watched_at |-> now])
                     /\ seq_video_history' = seq_video_history + 1
                     /\ SetReq(p, AfterRecording(r, outcome))
                ELSE /\ UNCHANGED video_vars
                     /\ SetReq(p, AfterRecording(r, outcome))
    /\ UNCHANGED <<outside_video, now, nreq>>

\* GET /videos/history?limit=: limit = min(int(limit), 100); the response
\* holds the rows the SELECT returns
GetVideoHistory(p, N, cap, seq) ==
    /\ CanStart(p, cap, seq)
    /\ \E raw \in N :
         LET limit == Min2(raw, VideoHistoryCap)
             rows == {v \in video_history : v.user_id = DefaultUser}
         IN  SetReq(p, Respond([NewReq("get_video_history") EXCEPT
                                  !.args = [limit |-> raw,
                                            returned |->
                                              SqlLimit(Cardinality(rows), limit)]],
                               200, "", ""))
    /\ nreq' = nreq + 1
    /\ UNCHANGED <<video_vars, outside_video, now>>

(***************************************************************************)
(* Environment                                                             *)
(***************************************************************************)
\* time passes; with seq the clock is read between requests only (a request
\* runs within one timestamp unit)
Tick(seq) ==
    /\ now < MaxClock
    /\ seq => \A q \in Procs : Free(q)
    /\ now' = now + 1
    /\ UNCHANGED <<db_vars, mem_vars, outside_chat, req, nreq, dr>>

\* the statements of a chat request after its first
ChatStep(p, R) ==
    \/ ChatMemCheck(p)
    \/ ChatMemInit(p)
    \/ AcmSelect(p)
    \/ AcmCreate(p)
    \/ AcmInsert(p)
    \/ AcmTouch(p)
    \/ AcmTitleRead(p)
    \/ AcmTitleWrite(p)
    \/ ChatAppendUser(p)
    \/ ChatTrim(p)
    \/ ChatBuildContext(p)
    \/ ChatProvider(p, R)
    \/ ChatAppendAi(p)
    \/ ChatExcept(p)

(***************************************************************************)
(* Spec: requests of every kind, handled one after the other               *)
(***************************************************************************)
SeqProcs == {1}

Next ==
    \/ \E p \in SeqProcs : ChatBegin(p, Sessions, Messages, MaxReqs, TRUE)
    \/ \E p \in SeqProcs : ChatStep(p, Replies)
    \/ \E p \in SeqProcs : ClearChat(p, Sessions, MaxReqs, TRUE)
    \/ \E p \in SeqProcs : DeleteConversationBegin(p, ConvIds, MaxReqs, TRUE)
    \/ \E p \in SeqProcs : DeleteConversationRow(p)
    \/ \E p \in SeqProcs : RestoreConversation(p, ConvIds, MaxReqs, TRUE)
    \/ \E p \in SeqProcs : EmptyTrashBegin(p, MaxReqs, TRUE)
    \/ \E p \in SeqProcs : EmptyTrashMessages(p)
    \/ \E p \in SeqProcs : EmptyTrashRows(p)

Spec == Init /\ [][Next]_vars

(***************************************************************************)
(* SpecWindow: a long run of chat and clear requests, handled one after    *)
(* the other, long enough for the window of session s1 to overflow         *)
(***************************************************************************)
WindowSessions == {"s1"}
WindowMessages == {"Hello"}

NextWindow ==
    \/ \E p \in SeqProcs : ChatBegin(p, WindowSessions, WindowMessages, MaxReqsW, TRUE)
    \/ \E p \in SeqProcs :
         ChatBegin(p, Sessions \ WindowSessions, WindowMessages, MaxReqsO, TRUE)
    \/ \E p \in SeqProcs : ChatStep(p, Replies)
    \/ \E p \in SeqProcs : ClearChat(p, Sessions, MaxReqsW, TRUE)

SpecWindow == Init /\ [][NextWindow]_vars

(***************************************************************************)
(* SpecConc: chat and clear requests of one session handled by threads     *)
(* that interleave statement by statement                                  *)
(***************************************************************************)
NextConc ==
    \/ \E p \in Procs : ChatBegin(p, WindowSessions, WindowMessages, MaxReqsC, FALSE)
    \/ \E p \in Procs : ChatStep(p, Replies)
    \/ \E p \in Procs : ClearChat(p, WindowSessions, MaxReqsC, FALSE)
    \/ Tick(FALSE)

SpecConc == Init /\ [][NextConc]_vars

(***************************************************************************)
(* SpecPurge: chat, delete, restore and empty-trash requests with short    *)
(* messages, handled one after the other                                   *)
(***************************************************************************)
NextPurge ==
    \/ \E p \in SeqProcs : ChatBegin(p, Sessions, WindowMessages, MaxReqsP, TRUE)
    \/ \E p \in SeqProcs : ChatStep(p, Replies)
    \/ \E p \in SeqProcs : DeleteConversationBegin(p, ConvIds, MaxReqsP, TRUE)
    \/ \E p \in SeqProcs : DeleteConversationRow(p)
    \/ \E p \in SeqProcs : RestoreConversation(p, ConvIds, MaxReqsP, TRUE)
    \/ \E p \in SeqProcs : EmptyTrashBegin(p, MaxReqsP, TRUE)
    \/ \E p \in SeqProcs : EmptyTrashMessages(p)
    \/ \E p \in SeqProcs : EmptyTrashRows(p)

SpecPurge == Init /\ [][NextPurge]_vars

(***************************************************************************)
(* SpecPurgeConc: the same requests on one session; a chat request starts  *)
(* when no other request is in flight, the delete, restore and empty-trash *)
(* requests interleave statement by statement                              *)
(***************************************************************************)
PurgeIds == {1}

NextPurgeConc ==
    \/ \E p \in Procs : ChatBegin(p, WindowSessions, WindowMessages, MaxReqsT, TRUE)
    \/ \E p \in Procs : ChatStep(p, Replies)
    \/ \E p \in Procs : DeleteConversationBegin(p, PurgeIds, MaxReqsT, FALSE)
    \/ \E p \in Procs : DeleteConversationRow(p)
    \/ \E p \in Procs : RestoreConversation(p, PurgeIds, MaxReqsT, FALSE)
    \/ \E p \in Procs : EmptyTrashBegin(p, MaxReqsT, FALSE)
    \/ \E p \in Procs : EmptyTrashMessages(p)
    \/ \E p \in Procs : EmptyTrashRows(p)

SpecPurgeConc == Init /\ [][NextPurgeConc]_vars

(***************************************************************************)
(* SpecJournal: journal requests handled one after the other               *)
(***************************************************************************)
TagLists == {<<>>, <<"b", "a">>, <<"say \"hi\", x">>}
JournalTitles == {"", " Notes "}
JournalContents == {" ", "Text"}
NewTitles == {NULL, Some(""), Some("Notes 2")}
NewContents == {NULL, Some("")}
NewTags == {NULL, Some(<<>>), Some(<<"c">>)}
NewFolders == {NULL, Some(1)}

NextJournal ==
    \/ \E p \in SeqProcs :
         CreateJournal(p, JournalTitles, JournalContents, TagLists, {NULL}, MaxReqsJ, TRUE)
    \/ \E p \in SeqProcs :
         UpdateJournal(p, RowIds, NewTitles, NewContents, NewTags, NewFolders,
                       MaxReqsJ, TRUE)
    \/ \E p \in SeqProcs : ShareJournal(p, RowIds, MaxReqsJ, TRUE)
    \/ \E p \in SeqProcs : DeleteJournal(p, RowIds, MaxReqsJ, TRUE)

SpecJournal == Init /\ [][NextJournal]_vars

(***************************************************************************)
(* SpecFolder: folder requests and journals filed in folders, handled one  *)
(* after the other; a statement of delete_folder may raise                 *)
(***************************************************************************)
FolderNames == {"", "Physics"}
FolderRefs == {NULL} \cup {Some(i) : i \in RowIds}

NextFolder ==
    \/ \E p \in SeqProcs : CreateFolder(p, FolderNames, MaxReqsF, TRUE)
    \/ \E p \in SeqProcs :
         CreateJournal(p, {"Notes"}, {"Text"}, {<<>>}, FolderRefs, MaxReqsF, TRUE)
    \/ \E p \in SeqProcs :
         UpdateJournal(p, RowIds, {NULL}, {NULL}, {NULL}, FolderRefs, MaxReqsF, TRUE)
    \/ \E p \in SeqProcs : DeleteFolderBegin(p, RowIds, StatementOutcomes, MaxReqsF, TRUE)
    \/ \E p \in SeqProcs : DeleteFolderRow(p, StatementOutcomes)

SpecFolder == Init /\ [][NextFolder]_vars

(***************************************************************************)
(* SpecFolderConc: the same requests handled by threads that interleave,   *)
(* from clients that only name folders that exist when the request starts; *)
(* no statement raises                                                     *)
(***************************************************************************)
ExistingFolderRefs == {NULL} \cup {Some(f.id) : f \in folders}

NextFolderConc ==
    \/ \E p \in Procs : CreateFolder(p, FolderNames, MaxReqsG, FALSE)
    \/ \E p \in Procs :
         CreateJournal(p, {"Notes"}, {"Text"}, {<<>>}, ExistingFolderRefs, MaxReqsG, FALSE)
    \/ \E p \in Procs :
         UpdateJournal(p, RowIds, {NULL}, {NULL}, {NULL}, ExistingFolderRefs,
                       MaxReqsG, FALSE)
    \/ \E p \in Procs : DeleteFolderBegin(p, Ids(folders), {"commit"}, MaxReqsG, FALSE)
    \/ \E p \in Procs : DeleteFolderRow(p, {"commit"})

SpecFolderConc == Init /\ [][NextFolderConc]_vars

(***************************************************************************)
(* SpecFallback: one chat request over texts of every category of the      *)
(* fallback generator                                                      *)
(***************************************************************************)
FallbackTexts ==
    {"I understand nothing", "What is a ball",
     "gravity pulls the coin down to the table",
     "I don't know torque", "I DON'T KNOW TORQUE", "idk about spin", "no idea",
     "what is toque", "Why?", "teach me from the start", "i want to learn physics",
     "torque in outer space", "tell me about pendulums"}

NextFallback ==
    \/ \E p \in SeqProcs : ChatBegin(p, WindowSessions, FallbackTexts, MaxReqsB, TRUE)
    \/ \E p \in SeqProcs : ChatStep(p, Replies)

SpecFallback == Init /\ [][NextFallback]_vars

(***************************************************************************)
(* SpecFallbackState: chat requests handled one after the other by any     *)
(* thread, so that the generator is called in different states             *)
(***************************************************************************)
RepeatedTexts == {"I don't know torque", "Why?", "tell me about pendulums"}

NextFallbackState ==
    \/ \E p \in Procs : ChatBegin(p, Sessions, RepeatedTexts, MaxReqsD, TRUE)
    \/ \E p \in Procs : ChatStep(p, Replies)

SpecFallbackState == Init /\ [][NextFallbackState]_vars

(***************************************************************************)
(* SpecDuration: video searches answered with one video, over duration     *)
(* tokens of hours, minutes and seconds                                    *)
(***************************************************************************)
DurationTokens ==
    {"PT1H2M3S", "PT5M9S", "PT0S", "PT1H", "PT45S", "PT10M", "PT12H30M", "PT2H5S",
     "PT75M30S", "PT0H5M", "PT1H10M10S", "PT100H1M1S", "PT3M", "PT59S", "PT0H0M0S",
     "PT9M", "PT10H0M9S"}

DurationItemLists ==
    {<<[video_id |-> v, title |-> "Lecture", duration |-> t]>> :
        v \in VideoIds, t \in DurationTokens}

NextDuration ==
    \/ \E p \in SeqProcs :
         SearchVideosBegin(p, {"torque"}, {DefaultMaxResults}, DurationItemLists,
                           MaxReqsU, TRUE)
    \/ \E p \in SeqProcs : SearchRecord(p, {"commit"})

SpecDuration == Init /\ [][NextDuration]_vars

(***************************************************************************)
(* SpecListing: the listings and the video search with their limit         *)
(* parameters; every search is answered with as many videos as it asks     *)
(* for, none of them seen before                                           *)
(***************************************************************************)
Limits == {-1, 0, 20, 1000}

FreshItems(n) ==
    [i \in 1..n |-> [video_id |-> "v" \o DecimalString(seq_video_history + i),
                     title |-> "Lecture", duration |-> "PT5M9S"]]

NextListing ==
    \/ \E p \in SeqProcs :
         SearchVideosBegin(p, {"torque"}, Limits,
                           {FreshItems(20), FreshItems(SearchCap)}, MaxReqsH, TRUE)
    \/ \E p \in SeqProcs : SearchRecord(p, {"commit"})
    \/ \E p \in SeqProcs : GetVideoHistory(p, Limits, MaxReqsH, TRUE)
    \/ \E p \in SeqProcs : GetConversationHistory(p, Limits, MaxReqsH, TRUE)
    \/ \E p \in SeqProcs : GetTrash(p, Limits, MaxReqsH, TRUE)

SpecListing == Init /\ [][NextListing]_vars

(***************************************************************************)
(* SpecTitleRace: chat requests of one session with different messages,    *)
(* handled by threads that interleave                                      *)
(***************************************************************************)
TitleMessages == {"Hello", "Torque"}

NextTitleRace ==
    \/ \E p \in Procs : ChatBegin(p, WindowSessions, TitleMessages, MaxReqsR, FALSE)
    \/ \E p \in Procs : ChatStep(p, Replies)

SpecTitleRace == Init /\ [][NextTitleRace]_vars

(***************************************************************************)
(* The persistence layer called on behalf of an owner: the methods of      *)
(* DatabaseManager with their user_id parameter (the schema supports       *)
(* several owners; the handlers pass user_id = 1).  Each action is one     *)
(* call, its statements run one after the other.                           *)
(***************************************************************************)
Owners == {1, 2}

\* history: the four owned tables as a call found them
OwnerTables ==
    [conversations |-> conversations, chat_messages |-> chat_messages,
     journals |-> journals, folders |-> folders]

\* a call of the persistence layer and its arguments
OwnerCall(p, op, user_id, id) ==
    /\ SetReq(p, [NewReq(op) EXCEPT !.pc = "done", !.before = OwnerTables,
                                    !.args = [user_id |-> user_id, id |-> id]])
    /\ nreq' = nreq + 1
    /\ UNCHANGED <<mem_vars, genai, youtube_client, video_vars, now, dr>>

\* add_chat_message(session_id, 'user', message, user_id):
\* get_or_create_conversation, the INSERT, update_conversation_activity
DbAddChatMessage(p, U, S, M, cap) ==
    /\ CanStart(p, cap, TRUE)
    /\ \E user_id \in U, session_id \in S, message \in M :
         LET result == SelectConversation(session_id, user_id)
             conversation_id == IF result # <<>> THEN result[1]
                                ELSE seq_conversations + 1
             found == IF result # <<>> THEN conversations
                      ELSE conversations \cup
                           {[id |-> seq_conversations + 1, session_id |-> session_id,
                             title |-> NULL, user_id |-> user_id,
                             is_deleted |-> FALSE, deleted_at |-> NULL,
                             updated_at |-> now]}
         IN  /\ seq_conversations' =
                  IF result # <<>> THEN seq_conversations ELSE seq_conversations + 1
             /\ seq_chat_messages' = seq_chat_messages + 1
             /\ chat_messages' = chat_messages \cup
                  {[id |-> seq_chat_messages + 1, conversation_id |-> conversation_id,
                    session_id |-> session_id, sender |-> "user",
                    message |-> message, timestamp |-> now]}
             /\ conversations' =
                  {IF c.id = conversation_id
                   THEN [c EXCEPT !.updated_at = now,
                                  !.title = IF NeedsTitle({c})
                                            THEN Some(DeriveTitle(message)) ELSE @]
                   ELSE c : c \in found}
             /\ OwnerCall(p, "add_chat_message", user_id, conversation_id)
    /\ UNCHANGED journal_vars

\* delete_conversation(conversation_id, user_id, permanent)
DbDeleteConversation(p, U, I, cap) ==
    /\ CanStart(p, cap, TRUE)
    /\ \E user_id \in U, conversation_id \in I, permanent \in BOOLEAN :
         /\ IF permanent
            THEN /\ chat_messages' =
                      {m \in chat_messages : m.conversation_id # conversation_id}
                 /\ conversations' =
                      {c \in conversations :
                         ~PermanentDeleteHits(c, conversation_id, user_id)}
            ELSE /\ conversations' =
                      {IF c.id = conversation_id /\ c.user_id = user_id
                       THEN SoftDeleteRow(c) ELSE c : c \in conversations}
                 /\ UNCHANGED chat_messages
         /\ OwnerCall(p, "delete_conversation", user_id, conversation_id)
    /\ UNCHANGED <<seq_conversations, seq_chat_messages, journal_vars>>

\* restore_conversation(conversation_id, user_id)
DbRestoreConversation(p, U, I, cap) ==
    /\ CanStart(p, cap, TRUE)
    /\ \E user_id \in U, conversation_id \in I :
         /\ conversations' =
              {IF c.id = conversation_id /\ c.user_id = user_id
               THEN RestoreRow(c) ELSE c : c \in conversations}
         /\ OwnerCall(p, "restore_conversation", user_id, conversation_id)
    /\ UNCHANGED <<seq_conversations, chat_messages, seq_chat_messages, journal_vars>>

\* empty_trash(user_id)
DbEmptyTrash(p, U, cap) ==
    /\ CanStart(p, cap, TRUE)
    /\ \E user_id \in U :
         LET trashed_conversations ==
                 {c.id : c \in {c \in conversations : EmptyTrashHits(c, user_id)}}
         IN  /\ chat_messages' =
                  {m \in chat_messages : m.conversation_id \notin trashed_conversations}
             /\ conversations' =
                  {c \in conversations : ~EmptyTrashHits(c, user_id)}
             /\ OwnerCall(p, "empty_trash", user_id, 0)
    /\ UNCHANGED <<seq_conversations, seq_chat_messages, journal_vars>>

\* create_folder(name, user_id=user_id)
DbCreateFolder(p, U, N, cap) ==
    /\ CanStart(p, cap, TRUE)
    /\ \E user_id \in U, name \in N :
         /\ folders' = folders \cup
              {[id |-> seq_folders + 1, name |-> name, user_id |-> user_id,
                updated_at |-> now]}
         /\ seq_folders' = seq_folders + 1
         /\ OwnerCall(p, "create_folder", user_id, seq_folders + 1)
    /\ UNCHANGED <<db_vars, journals, seq_journals, seq_tokens, issued>>

\* create_journal(title, content, None, folder_id, user_id)
DbCreateJournal(p, U, F, cap) ==
    /\ CanStart(p, cap, TRUE)
    /\ \E user_id \in U, folder_id \in F :
         /\ journals' = journals \cup
              {[id |-> seq_journals + 1, title |-> "Notes", content |-> "Text",
                tags |-> TagsJson(<<>>), folder_id |-> folder_id,
                user_id |-> user_id, is_shared |-> FALSE,
                share_token |-> NULL, updated_at |-> now]}
         /\ seq_journals' = seq_journals + 1
         /\ OwnerCall(p, "create_journal", user_id, seq_journals + 1)
    /\ UNCHANGED <<db_vars, folders, seq_folders, seq_tokens, issued>>

\* delete_folder(folder_id, user_id)
DbDeleteFolder(p, U, I, cap) ==
    /\ CanStart(p, cap, TRUE)
    /\ \E user_id \in U, folder_id \in I :
         /\ journals' = DetachJournals(journals, folder_id)
         /\ folders' = {f \in folders : ~(f.id = folder_id /\ f.user_id = user_id)}
         /\ OwnerCall(p, "delete_folder", user_id, folder_id)
    /\ UNCHANGED <<db_vars, seq_journals, seq_folders, seq_tokens, issued>>

\* delete_journal(journal_id, user_id)
DbDeleteJournal(p, U, I, cap) ==
    /\ CanStart(p, cap, TRUE)
    /\ \E user_id \in U, journal_id \in I :
         /\ journals' = {j \in journals : ~(j.id = journal_id /\ j.user_id = user_id)}
         /\ OwnerCall(p, "delete_journal", user_id, journal_id)
    /\ UNCHANGED <<db_vars, seq_journals, folders, seq_folders, seq_tokens, issued>>

\* share_journal(journal_id, user_id)
DbShareJournal(p, U, I, cap) ==
    /\ CanStart(p, cap, TRUE)
    /\ \E user_id \in U, journal_id \in I :
         LET share_token == seq_tokens + 1
             hit == {j \in journals : j.id = journal_id /\ j.user_id = user_id}
         IN  /\ seq_tokens' = share_token
             /\ journals' = {IF j \in hit THEN ShareRow(j, share_token) ELSE j :
                               j \in journals}
             /\ issued' = IF hit = {} THEN issued
                          ELSE DictPut(issued, journal_id,
                                       IF journal_id \in DOMAIN issued
                                       THEN Append(issued[journal_id], share_token)
                                       ELSE <<share_token>>)
             /\ OwnerCall(p, "share_journal", user_id, journal_id)
    /\ UNCHANGED <<db_vars, seq_journals, folders, seq_folders>>

(***************************************************************************)
(* SpecOwners: calls of the persistence layer for two owners, one after    *)
(* the other                                                               *)
(***************************************************************************)
NextOwners ==
    \/ \E p \in SeqProcs :
         DbAddChatMessage(p, Owners, WindowSessions, WindowMessages, MaxReqsN)
    \/ \E p \in SeqProcs : DbDeleteConversation(p, Owners, RowIds, MaxReqsN)
    \/ \E p \in SeqProcs : DbRestoreConversation(p, Owners, RowIds, MaxReqsN)
    \/ \E p \in SeqProcs : DbEmptyTrash(p, Owners, MaxReqsN)
    \/ \E p \in SeqProcs : DbCreateFolder(p, Owners, {"Physics"}, MaxReqsN)
    \/ \E p \in SeqProcs : DbCreateJournal(p, Owners, NewFolders, MaxReqsN)
    \/ \E p \in SeqProcs : DbDeleteFolder(p, Owners, RowIds, MaxReqsN)
    \/ \E p \in SeqProcs : DbDeleteJournal(p, Owners, RowIds, MaxReqsN)
    \/ \E p \in SeqProcs : DbShareJournal(p, Owners, RowIds, MaxReqsN)

SpecOwners == Init /\ [][NextOwners]_vars

(***************************************************************************)
(* SpecMessages: chat requests of one session and readings of its          *)
(* messages, handled one after the other while time passes                 *)
(***************************************************************************)
NextMessages ==
    \/ \E p \in SeqProcs : ChatBegin(p, WindowSessions, WindowMessages, MaxReqsM, TRUE)
    \/ \E p \in SeqProcs : ChatStep(p, Replies)
    \/ \E p \in SeqProcs : GetConversationMessages(p, WindowSessions, MaxReqsM, TRUE)
    \/ Tick(TRUE)

SpecMessages == Init /\ [][NextMessages]_vars

(***************************************************************************)
(* SpecLive: chat requests handled one after the other; a handler thread    *)
(* that can take its next statement eventually takes it                    *)
(* (every statement returns: the provider call returns or raises, a        *)
(* timeout being one of the exceptions)                                    *)
(***************************************************************************)
NextLive ==
    \/ \E p \in SeqProcs : ChatBegin(p, Sessions, WindowMessages, MaxReqsL, TRUE)
    \/ \E p \in SeqProcs : ChatStep(p, Replies)

SpecLive ==
    /\ Init /\ [][NextLive]_vars
    /\ WF_vars(\E p \in SeqProcs : ChatStep(p, Replies))

(***************************************************************************)
(* SpecVideo: video searches handled one after the other                   *)
(***************************************************************************)
NextVideo ==
    \/ \E p \in SeqProcs : SearchVideosBegin(p, Queries, {DefaultMaxResults}, ItemLists, MaxReqsV, TRUE)
    \/ \E p \in SeqProcs : SearchRecord(p, StatementOutcomes)
    \/ Tick(TRUE)

SpecVideo == Init /\ [][NextVideo]_vars

(***************************************************************************)
(* Properties                                                              *)
(***************************************************************************)
\* a chat request that passed validation, at handler p
ChatOf(p) == req[p].op = "chat" /\ req[p].user_message # ""

\* a row of chat_messages holds this text for this session, in a conversation
\* of the session that exists
Persisted(session_id, sender, message) ==
    \E m \in chat_messages :
        /\ m.session_id = session_id
        /\ m.sender = sender
        /\ m.message = message
        /\ \E c \in conversations : c.id = m.conversation_id /\ c.session_id = session_id

\* C1: for every chat request with a non-empty message, the user message is
\* persisted before any provider call, and is in the persisted history when
\* the request returns, whether the provider succeeds, fails or is absent.
C1_UserMessagePersisted ==
    \A p \in Procs :
        (ChatOf(p) /\ req[p].pc \in {"provider", "done"})
            => Persisted(req[p].session_id, "user", req[p].user_message)

\* C2: whenever the provider is absent or its call fails, the chat request
\* returns the fallback generator's reply for the user text with source
\* "fallback", and that reply is persisted as an assistant message.
C2_FallbackReturnedAndPersisted ==
    \A p \in Procs :
        (ChatOf(p) /\ req[p].pc = "done" /\ (~genai \/ req[p].provider = "failed"))
            => /\ req[p].source = "fallback"
               /\ req[p].reply = generate_fallback(req[p].user_message)
               /\ Persisted(req[p].session_id, "ai", req[p].reply)

\* C3: when the provider call succeeds, the request persists the provider's
\* text as an assistant message, appends it to the session's window and
\* returns exactly that text with source "ai", never source "fallback".
C3_SuccessAnsweredByProvider ==
    [][\A p \in Procs :
         (req[p].pc # "done" /\ req'[p].pc = "done" /\ ChatOf(p)'
          /\ req'[p].provider = "ok")
            => /\ req'[p].source = "ai"
               /\ req'[p].reply = req'[p].response_text
               /\ Persisted(req[p].session_id, "ai", req[p].response_text)'
               /\ req[p].session_id \in DOMAIN conversation_memory'
               /\ LET window == conversation_memory'[req[p].session_id]
                  IN  /\ window # <<>>
                      /\ window[Len(window)] = "Scoratis: " \o req[p].response_text]_vars

\* no handler is in the middle of a request
Quiescent == \A p \in Procs : Free(p)

\* C4 (as claimed): in every reachable state the window of each session
\* holds no more than the last 10 entries, in arrival order.
C4_WindowAtMostTen ==
    \A s \in DOMAIN conversation_memory :
        /\ Len(conversation_memory[s]) <= WindowSize
        /\ conversation_memory[s] = LastN(arrivals[s], Len(conversation_memory[s]))

\* C4 (amended): with requests handled one after the other, the window of
\* each session always holds exactly the most recent entries in arrival
\* order (the oldest discarded first): the last 10 when the provider context
\* is built, so the context has at most 10 entries; at most 11 between
\* requests, since the assistant entry is appended after the trim; at most
\* 12 inside a request, between the user entry's append and the trim.
C4_WindowHoldsMostRecent ==
    /\ \A s \in DOMAIN conversation_memory :
         LET window == conversation_memory[s]
             untrimmed == \E p \in Procs : req[p].pc = "trim" /\ req[p].session_id = s
             building == \E p \in Procs :
                            req[p].pc = "build_context" /\ req[p].session_id = s
         IN  /\ window = LastN(arrivals[s], Len(window))
             /\ Len(arrivals[s]) <= WindowSize => window = arrivals[s]
             /\ Len(window) <= WindowSize + 2
             /\ ~untrimmed => Len(window) <= WindowSize + 1
             /\ building => window = LastN(arrivals[s], WindowSize)
    /\ \A p \in Procs :
         req[p].pc = "provider"
            => /\ Len(req[p].context) <= WindowSize
               /\ req[p].context = LastN(arrivals[req[p].session_id], WindowSize)

C4_Witness ==
    /\ Quiescent
    /\ \E s \in DOMAIN conversation_memory :
         /\ Len(conversation_memory[s]) = WindowSize + 1
         /\ Len(arrivals[s]) > Len(conversation_memory[s])

\* C5: operations on the in-memory window never change persisted state: a
\* clear-memory request removes only that session's window entry and leaves
\* every conversation and every persisted message as it was, and the trim of
\* the window removes no persisted message.
C5_WindowOpsKeepPersisted ==
    [][\A p \in Procs :
         /\ (req'[p].n # req[p].n /\ req'[p].op = "clear")
               => /\ conversations' = conversations
                  /\ chat_messages' = chat_messages
                  /\ DOMAIN conversation_memory'
                        = DOMAIN conversation_memory \ {req'[p].session_id}
                  /\ \A t \in DOMAIN conversation_memory' :
                        conversation_memory'[t] = conversation_memory[t]
         /\ (req[p].pc = "trim" /\ req'[p].pc = "build_context")
               => /\ conversations' = conversations
                  /\ chat_messages' = chat_messages]_vars

C5_Witness ==
    \E p \in Procs :
        /\ req[p].op = "clear" /\ req[p].pc = "done"
        /\ req[p].session_id \notin DOMAIN conversation_memory
        /\ DOMAIN conversation_memory # {}
        /\ \E c \in conversations : c.session_id = req[p].session_id
        /\ \E m \in chat_messages : m.session_id = req[p].session_id

\* the text of the first user message of a conversation, in a one-element
\* set; empty when there is none
FirstUserMessage(cid) ==
    LET ms == MessagesOf(cid)
        idx == {i \in 1..Len(ms) : ms[i].sender = "user"}
    IN  IF idx = {} THEN {} ELSE {ms[Min(idx)].message}

ExpectedTitle(text) ==
    IF Len(text) > 50 THEN SubSeq(text, 1, 50) \o "..." ELSE text

\* C6: after any sequence of add_chat_message calls the title of every
\* conversation is null until its first user message, then the first 50
\* characters of that message (plus "..." exactly when it is longer), and no
\* later message changes a title once set.
C6_TitleFromFirstUserMessage ==
    /\ [](Quiescent =>
            \A c \in conversations :
                IF FirstUserMessage(c.id) = {}
                THEN c.title = NULL
                ELSE \A text \in FirstUserMessage(c.id) :
                        c.title = Some(ExpectedTitle(text)))
    /\ [][\A c \in conversations : \A d \in conversations' :
            (c.id = d.id /\ c.title # NULL) => d.title = c.title]_vars

C6_Witness ==
    /\ Quiescent
    /\ \E c \in conversations :
         LET ms == MessagesOf(c.id)
         IN  /\ \E i, j \in 1..Len(ms) :
                   /\ i < j
                   /\ ms[i].sender = "user" /\ ms[j].sender = "user"
                   /\ ms[i].message = Long51 /\ ms[j].message = "Hello"
             /\ c.title = Some(SubSeq(Long51, 1, 50) \o "...")

\* the soft delete / restore request that handler p performs in this step
SoftDeleteStep(p) ==
    req'[p].n # req[p].n /\ req'[p].op = "delete" /\ ~req'[p].permanent
RestoreStep(p) == req'[p].n # req[p].n /\ req'[p].op = "restore"

\* C8: a non-permanent delete of a conversation by its owner makes it trashed
\* and stamps the deletion time, restore makes it active and clears the
\* deletion time, and in every reachable state a conversation has a deletion
\* time if and only if its soft-delete flag is set.
C8_TrashStateMachine ==
    /\ [](\A c \in conversations : (c.deleted_at # NULL) <=> (c.is_deleted = TRUE))
    /\ [][\A p \in Procs : \A c \in conversations :
            (c.id = req'[p].conversation_id /\ c.user_id = DefaultUser)
               => /\ SoftDeleteStep(p)
                       => \E d \in conversations' :
                             /\ d.id = c.id
                             /\ d.is_deleted = TRUE
                             /\ d.deleted_at = Some(now)
                  /\ RestoreStep(p)
                       => \E d \in conversations' :
                             /\ d.id = c.id
                             /\ d.is_deleted = FALSE
                             /\ d.deleted_at = NULL]_vars

C8_Witness ==
    \E p \in Procs :
        /\ req[p].op = "delete" /\ req[p].pc = "done" /\ ~req[p].permanent
        /\ \E c \in conversations :
              /\ c.id = req[p].conversation_id
              /\ c.title # NULL
              /\ c.is_deleted = TRUE
              /\ c.deleted_at = Some(now)

\* C9: every existing conversation of the owner is in exactly one of the two
\* listings: the default listing holds exactly the conversations that are not
\* trashed and the trash listing exactly the trashed ones.
C9_ListingsPartition ==
    LET owned == {c \in conversations : c.user_id = DefaultUser}
    IN  /\ HistoryListing = {c \in owned : c.deleted_at = NULL}
        /\ TrashListing = {c \in owned : c.deleted_at # NULL}
        /\ \A c \in owned : (c \in HistoryListing) # (c \in TrashListing)

C9_Witness ==
    /\ HistoryListing # {}
    /\ TrashListing # {}

\* C10: restore reverses a non-permanent delete: an active conversation that
\* is deleted and then restored is in the default listing, not in the trash
\* listing, has a null deletion time and the title and persisted messages it
\* had before the delete.
C10_RestoreReversesDelete ==
    dr.stage = "restored"
        => /\ \E c \in HistoryListing :
                /\ c.id = dr.id
                /\ c.deleted_at = NULL
                /\ c.title = dr.title
           /\ \A c \in TrashListing : c.id # dr.id
           /\ MessagesOf(dr.id) = dr.messages

C10_Witness ==
    /\ dr.stage = "restored"
    /\ dr.title # NULL
    /\ Len(dr.messages) >= 2

\* C7: in every reachable state there is at most one conversation record per
\* (session identifier, owner), also when two chat requests for the same
\* unseen session identifier are handled concurrently.
C7_OneConversationPerSession ==
    \A c \in conversations : \A d \in conversations :
        (c.session_id = d.session_id /\ c.user_id = d.user_id) => c.id = d.id

\* C11: delete(id, permanent=true) by the owner purges the conversation and
\* all its messages, whether it was active or trashed: when the request has
\* returned the conversation is in neither listing, no message of it is
\* stored or returned by get_conversation_messages, and no later step (a
\* restore included) makes a conversation id that was purged exist again.
C11_PermanentDeletePurges ==
    /\ [](\A p \in Procs :
            (req[p].op = "delete" /\ req[p].permanent /\ req[p].pc = "done")
               => LET id == req[p].conversation_id
                  IN  /\ id \notin Ids(conversations)
                      /\ id \notin Ids(HistoryListing) \cup Ids(TrashListing)
                      /\ \A m \in chat_messages : m.conversation_id # id
                      /\ \A s \in Sessions :
                            \A m \in get_conversation_messages(s, DefaultUser) :
                                m.conversation_id # id)
    /\ [][\A id \in 1..seq_conversations :
            id \notin Ids(conversations) => id \notin Ids(conversations')]_vars

C11_Witness ==
    \E p \in Procs :
        /\ req[p].op = "delete" /\ req[p].permanent /\ req[p].pc = "done"
        /\ \E c \in req[p].before.conversations :
              /\ c.id = req[p].conversation_id
              /\ c.is_deleted = TRUE
              /\ \E m \in req[p].before.chat_messages : m.conversation_id = c.id
        /\ \E c \in conversations : c.is_deleted = FALSE

\* C12: emptyTrash(owner) purges every trashed conversation of the owner
\* together with all of its messages, and leaves every active conversation
\* and its messages as they were.
C12_EmptyTrashPurgesTrashOnly ==
    \A p \in Procs :
        (req[p].op = "empty_trash" /\ req[p].pc = "done")
           => LET b == req[p].before
                  trashed == {c \in b.conversations :
                                 c.user_id = DefaultUser /\ c.deleted_at # NULL}
              IN  /\ conversations = b.conversations \ trashed
                  /\ chat_messages =
                        {m \in b.chat_messages : m.conversation_id \notin Ids(trashed)}

C12_Witness ==
    \E p \in Procs :
        /\ req[p].op = "empty_trash" /\ req[p].pc = "done"
        /\ \E c \in req[p].before.conversations :
              /\ c.is_deleted = TRUE
              /\ \E m \in req[p].before.chat_messages : m.conversation_id = c.id
        /\ \E c \in conversations : \E m \in chat_messages : m.conversation_id = c.id

\* C13: chat messages are immutable and are purged only alongside their
\* conversation: a stored message never changes, a message is removed only
\* by a step of a delete or empty-trash request, and once no request is in
\* flight every conversation that still exists has every message that a
\* delete or empty-trash request found stored for it.
C13_MessagesKeptWithConversation ==
    /\ [](Quiescent =>
            \A p \in Procs :
                req[p].op \in {"delete", "empty_trash"}
                   => \A m \in req[p].before.chat_messages :
                         m.conversation_id \in Ids(conversations)
                            => m \in chat_messages)
    /\ [][\A m \in chat_messages :
            /\ \A k \in chat_messages' : k.id = m.id => k = m
            /\ m \notin chat_messages'
                  => \E p \in Procs :
                        /\ req'[p] # req[p]
                        /\ req'[p].op \in {"delete", "empty_trash"}]_vars

\* C14: every mutating persistence operation is atomic: when a statement of
\* delete_folder raises, the caller gets the error and the journal and folder
\* tables are what they were before the operation.
C14_FailedOperationHasNoEffect ==
    \A p \in Procs :
        (req[p].op = "delete_folder" /\ req[p].pc = "done" /\ req[p].status = 500)
           => /\ journals = req[p].before.journals
              /\ folders = req[p].before.folders

\* C15: a delete of a folder that owns N journals, once it has succeeded,
\* leaves all N journals in existence with a null folder reference and the
\* folder out of the folder listing; it deletes no journal.
C15_DeleteFolderKeepsJournals ==
    \A p \in Procs :
        (req[p].op = "delete_folder" /\ req[p].pc = "done" /\ req[p].status = 200)
           => LET b == req[p].before
                  folder_id == req[p].args.folder_id
              IN  /\ Ids(journals) = Ids(b.journals)
                  /\ \A j \in b.journals :
                        j.folder_id = Some(folder_id)
                           => \E k \in journals : k.id = j.id /\ k.folder_id = NULL
                  /\ folder_id \notin Ids(get_folders(DefaultUser))

C15_Witness ==
    \E p \in Procs :
        /\ req[p].op = "delete_folder" /\ req[p].pc = "done" /\ req[p].status = 200
        /\ req[p].args.folder_id \in Ids(req[p].before.folders)
        /\ Cardinality({j \in req[p].before.journals :
                           j.folder_id = Some(req[p].args.folder_id)}) >= 2

\* C16: no dangling folder references: in every reachable state every
\* journal's folder reference is null or refers to an existing folder, after
\* any sequence and any interleaving of create_journal, update_journal and
\* delete_folder.
C16_NoDanglingFolderReference ==
    \A j \in journals : j.folder_id = NULL \/ \E f \in folders : Some(f.id) = j.folder_id

\* the share request that handler p performs in this step
ShareStep(p) == req'[p].n # req[p].n /\ req'[p].op = "share_journal"

\* the tokens written to journal id before its current one
EarlierTokens(id) ==
    IF id \in DOMAIN issued
    THEN {issued[id][n] : n \in 1..(Len(issued[id]) - 1)}
    ELSE {}

\* C17: every share toggle on a journal flips its share flag and replaces
\* its share token with a fresh non-empty one, the one returned to the
\* caller: it differs from the token the journal had and from every token
\* issued before, and in every reachable state no earlier token of a journal
\* is the token of an enabled share.
C17_ShareToggleReplacesToken ==
    /\ [][\A p \in Procs : \A j \in journals :
            (ShareStep(p) /\ j.id = req'[p].args.journal_id /\ j.user_id = DefaultUser)
               => \E k \in journals' :
                     /\ k.id = j.id
                     /\ k.is_shared = ~j.is_shared
                     /\ k.share_token # NULL
                     /\ k.share_token = Some(req'[p].args.share_token)
                     /\ k.share_token # j.share_token
                     /\ \A i \in DOMAIN issued : \A n \in 1..Len(issued[i]) :
                           k.share_token # Some(issued[i][n])]_vars
    /\ [](\A j \in journals : \A t \in EarlierTokens(j.id) :
            \A k \in journals : ~(k.is_shared /\ k.share_token = Some(t)))

C17_Witness ==
    \E j \in journals :
        /\ j.id \in DOMAIN issued
        /\ Len(issued[j.id]) = 2
        /\ issued[j.id][1] # issued[j.id][2]
        /\ ~j.is_shared
        /\ j.share_token = Some(issued[j.id][2])

\* C19: after every valid journal creation (non-empty title and content,
\* any sequence of tags, the empty one included) get_journals for the owner
\* includes the created entry with its tags equal to the sequence supplied,
\* in the same order.
C19_TagsRoundTrip ==
    \A p \in Procs :
        (req[p].op = "create_journal" /\ req[p].pc = "done" /\ req[p].status = 201)
           => \E g \in get_journals(DefaultUser, NULL) :
                 /\ g.id = req[p].args.journal_id
                 /\ g.title = req[p].args.title
                 /\ g.content = req[p].args.content
                 /\ g.tags = req[p].args.tags

C19_Witness ==
    /\ \E p \in Procs :
          /\ req[p].op = "create_journal" /\ req[p].pc = "done" /\ req[p].status = 201
          /\ req[p].args.tags = <<"b", "a">>
    /\ \E g \in get_journals(DefaultUser, NULL) : g.tags = <<"say \"hi\", x">>
    /\ \E g \in get_journals(DefaultUser, NULL) : g.tags = <<>>

\* C20: in every reachable state, after any sequence of POST /journals and
\* PUT /journals/{id} requests, every stored journal has a non-empty title
\* and a non-empty content, and a create request with an empty title or
\* content is answered 400 and leaves the store as it was.
C20_TitleAndContentNonEmpty ==
    /\ \A j \in journals : j.title # "" /\ j.content # ""
    /\ \A p \in Procs :
          (/\ req[p].op = "create_journal" /\ req[p].pc = "done"
           /\ (req[p].args.title = "" \/ req[p].args.content = ""))
             => /\ req[p].status = 400
                /\ journals = req[p].before.journals

\* C21: PUT /journals/{id} is a partial update: every supplied field takes
\* the supplied value and every field not supplied keeps its previous value,
\* no other journal is changed, and a request that supplies no field returns
\* 400 and changes nothing.
C21_PartialUpdate ==
    \A p \in Procs :
        (req[p].op = "update_journal" /\ req[p].pc = "done")
           => LET a == req[p].args
                  b == req[p].before.journals
              IN  IF a.title = NULL /\ a.content = NULL /\ a.tags = NULL
                     /\ a.folder_id = NULL
                  THEN req[p].status = 400 /\ journals = b
                  ELSE /\ Ids(journals) = Ids(b)
                       /\ Cardinality(journals) = Cardinality(b)
                       /\ \A j \in b :
                             IF j.id # a.journal_id
                             THEN j \in journals
                             ELSE \E k \in journals :
                                    /\ k.id = j.id
                                    /\ k.title = IF a.title # NULL THEN a.title[1]
                                                 ELSE j.title
                                    /\ k.content = IF a.content # NULL THEN a.content[1]
                                                   ELSE j.content
                                    /\ IF a.tags # NULL
                                       THEN ParsedTags(k.tags) = a.tags[1]
                                       ELSE k.tags = j.tags
                                    /\ k.folder_id = IF a.folder_id # NULL
                                                     THEN a.folder_id ELSE j.folder_id
                                    /\ k.user_id = j.user_id
                                    /\ k.is_shared = j.is_shared
                                    /\ k.share_token = j.share_token

C21_Witness ==
    \E p \in Procs :
        /\ req[p].op = "update_journal" /\ req[p].pc = "done" /\ req[p].status = 200
        /\ req[p].args.title = Some("Notes 2")
        /\ req[p].args.content = NULL /\ req[p].args.tags = NULL
        /\ \E j \in req[p].before.journals :
              j.id = req[p].args.journal_id /\ j.tags # NULL /\ j.title = "Notes"
        /\ \E j \in journals : j.id # req[p].args.journal_id
        /\ \E j \in journals : j.id = req[p].args.journal_id /\ j.title = "Notes 2"

\* C22: video search with a non-empty query never fails because of the
\* provider: when the provider is absent or its call fails in any way (quota,
\* credentials, network), the request returns the small fixed sample set
\* tagged as non-authoritative instead of an error status.
C22_SearchDegradesToSample ==
    \A p \in Procs :
        (req[p].op = "search_videos" /\ req[p].pc = "done" /\ req[p].args.query # "")
           => /\ req[p].status = 200
              /\ (~youtube_client \/ req[p].args.error # NULL)
                    => /\ req[p].source = "sample"
                       /\ req[p].args.videos = SampleVideos(req[p].args.query)

\* C23: recording watch history during a video search is best-effort: if
\* recording any returned video fails, the search still returns the full list
\* of formatted videos with a success status, identical to the response when
\* recording succeeds.
C23_RecordingIsBestEffort ==
    \A p \in Procs :
        /\ (req[p].op = "search_videos" /\ req[p].pc = "record")
              => Len(req[p].args.found)
                    = Len(req[p].args.videos) + Len(req[p].args.items)
        /\ (req[p].op = "search_videos" /\ req[p].pc = "done"
               /\ req[p].args.found # <<>>)
              => /\ req[p].status = 200
                 /\ req[p].source = "youtube"
                 /\ Len(req[p].args.videos) = Len(req[p].args.found)
                 /\ \A i \in 1..Len(req[p].args.found) :
                       /\ req[p].args.videos[i].video_id = req[p].args.found[i].video_id
                       /\ req[p].args.videos[i].title = req[p].args.found[i].title
                       /\ req[p].args.videos[i].duration = "5:09"

C23_Witness ==
    \E p \in Procs :
        /\ req[p].op = "search_videos" /\ req[p].pc = "done"
        /\ Len(req[p].args.found) = MaxItems
        /\ Len(req[p].args.videos) = MaxItems
        /\ video_history = {}

\* the number of question marks in a text
QuestionMarks(s) == Cardinality({i \in 1..Len(s) : Char(s, i) = "?"})

\* a chat request answered by the fallback generator
FallbackAnswered(p) ==
    ChatOf(p) /\ req[p].pc = "done" /\ req[p].source = "fallback"

\* C24: for every input text and every category it falls into, the default
\* included, the fallback generator's reply contains exactly one question
\* mark and it is the last character of the reply; "I don't know torque"
\* yields the torque anchor.
C24_OneTrailingQuestion ==
    \A p \in Procs :
        FallbackAnswered(p)
           => /\ QuestionMarks(req[p].reply) = 1
              /\ Char(req[p].reply, Len(req[p].reply)) = "?"
              /\ req[p].user_message = "I don't know torque"
                    => Contains(req[p].reply, "torque is the 'twist' effect")

\* the categories as the specification states them, in its priority order
\* 1 to 8, the phrase lists being those it gives
StatedOverwhelm == {"everything", "nothing", "all of it", "not understanding"}
StatedConfusion == {"don't know", "idk", "confused", "no idea"}
StatedLearn == {"teach me", "start", "beginning"}

StatedCategory(text) ==
    IF ContainsAny(text, StatedOverwhelm) THEN 1
    ELSE IF Len(text) > SubstantialLen /\ ContainsAny(text, PhysicsWords) THEN 2
    ELSE IF ContainsAny(text, StatedConfusion) THEN 3
    ELSE IF Contains(text, "toque") /\ ~Contains(text, "torque") THEN 4
    ELSE IF Len(text) < ShortLen \/ text \in ShortVocabulary THEN 5
    ELSE IF ContainsAny(text, StatedLearn) THEN 6
    ELSE IF Contains(text, "space")
            /\ (Contains(text, "torque") \/ Contains(text, "rotation")) THEN 7
    ELSE 8

\* the templates the code has for a category
TemplatesOf(category, user_message) ==
    CASE category = 1 -> {ReplyOverwhelm}
      [] category = 2 -> {ReplySubstantial}
      [] category = 3 -> {ReplyTorque, ReplyRotation, ReplyConfused}
      [] category = 4 -> {ReplyTypo}
      [] category = 5 -> {ReplyShort(user_message)}
      [] category = 6 -> {ReplyLearn}
      [] category = 7 -> {ReplySpace}
      [] category = 8 -> {ReplyDefault(user_message)}

\* C25: the fallback generator returns the template of the first category,
\* in the priority order 1 to 8, whose stated predicate matches the
\* lower-cased input; an input matching none of the listed phrases of a
\* category never receives that category's template.
C25_FirstStatedCategory ==
    \A p \in Procs :
        FallbackAnswered(p)
           => req[p].reply \in
                TemplatesOf(StatedCategory(ToLower(req[p].user_message)),
                            req[p].user_message)

\* a step in which generate_fallback is called: the handler without a
\* provider, or its except branch
FallbackCall(p) ==
    \/ req'[p].n # req[p].n /\ req'[p].pc = "done" /\ req'[p].op = "chat"
          /\ req'[p].source = "fallback"
    \/ req[p].pc = "except" /\ req'[p].pc # "except"

Answered(p) ==
    /\ req[p].pc = "done"
    /\ req[p].status = 200
    /\ req[p].reply # ""
    /\ req[p].source \in {"ai", "fallback"}

\* C27: every chat request with a non-empty message eventually completes
\* with a non-empty reply (source ai or fallback) and never with an error
\* status, whatever the provider does: success, exception or timeout.
C27_ChatEventuallyAnswered ==
    /\ \A p \in Procs : (ChatOf(p) /\ req[p].pc # "done") ~> Answered(p)
    /\ [](\A p \in Procs : (ChatOf(p) /\ req[p].pc = "done") => Answered(p))

C27_Witness ==
    \E p \in Procs :
        /\ ChatOf(p) /\ Answered(p) /\ req[p].n = 2
        /\ req[p].provider = "failed" /\ req[p].source = "fallback"
        /\ \E m \in chat_messages : m.sender = "ai" /\ m.message \in Replies

\* the hours, minutes and seconds a duration token stands for, and the text
\* it is to be shown as
DurationTable ==
    {<<"PT1H2M3S", 1, 2, 3, "1:02:03">>, <<"PT5M9S", 0, 5, 9, "5:09">>,
     <<"PT0S", 0, 0, 0, "0:00">>, <<"PT1H", 1, 0, 0, "1:00:00">>,
     <<"PT45S", 0, 0, 45, "0:45">>, <<"PT10M", 0, 10, 0, "10:00">>,
     <<"PT12H30M", 12, 30, 0, "12:30:00">>, <<"PT2H5S", 2, 0, 5, "2:00:05">>,
     <<"PT75M30S", 0, 75, 30, "75:30">>, <<"PT0H5M", 0, 5, 0, "5:00">>,
     <<"PT1H10M10S", 1, 10, 10, "1:10:10">>, <<"PT100H1M1S", 100, 1, 1, "100:01:01">>,
     <<"PT3M", 0, 3, 0, "3:00">>, <<"PT59S", 0, 0, 59, "0:59">>,
     <<"PT0H0M0S", 0, 0, 0, "0:00">>, <<"PT9M", 0, 9, 0, "9:00">>,
     <<"PT10H0M9S", 10, 0, 9, "10:00:09">>}

\* the shape of a shown duration: two colons when h > 0, one otherwise, and
\* two characters after every colon
ShownShape(text, h) ==
    LET colons == {i \in 1..Len(text) : Char(text, i) = ":"}
    IN  /\ Cardinality(colons) = IF h > 0 THEN 2 ELSE 1
        /\ \A i \in colons :
              /\ i + 2 <= Len(text)
              /\ IsDigit(Char(text, i + 1)) /\ IsDigit(Char(text, i + 2))
              /\ (i + 3 <= Len(text)) => Char(text, i + 3) = ":"

\* C29: parse_youtube_duration maps a duration token with hours h, minutes m
\* and seconds s (absent components counting as zero) to "h:MM:SS" when
\* h > 0 and to "m:SS" otherwise, with two-digit zero-padded minor fields:
\* 1 hour 2 minutes 3 seconds gives "1:02:03", 5 minutes 9 seconds gives
\* "5:09", zero gives "0:00".
C29_DurationFormat ==
    \A p \in Procs :
        (req[p].op = "search_videos" /\ req[p].pc = "done" /\ req[p].source = "youtube")
           => \A i \in 1..Len(req[p].args.found) :
                 \E row \in DurationTable :
                    /\ row[1] = req[p].args.found[i].duration
                    /\ req[p].args.videos[i].duration = row[5]
                    /\ ShownShape(req[p].args.videos[i].duration, row[2])

C29_Witness ==
    \E p \in Procs :
        /\ req[p].op = "search_videos" /\ req[p].pc = "done"
        /\ req[p].source = "youtube"
        /\ req[p].args.found[1].duration = "PT1H2M3S"
        /\ req[p].args.videos[1].duration = "1:02:03"

\* C28: the listing caps hold for every integer value of the limit
\* parameter, zero and negative values included: the conversation history
\* returns at most 50 conversations, the trash listing at most 100, video
\* history at most 100 entries and video search at most 25 videos.
C28_ListingCaps ==
    \A p \in Procs :
        req[p].pc = "done"
           => /\ req[p].op = "get_conversation_history"
                   => req[p].args.returned <= HistoryCap
              /\ req[p].op = "get_trash" => req[p].args.returned <= TrashCap
              /\ req[p].op = "get_video_history"
                   => req[p].args.returned <= VideoHistoryCap
              /\ req[p].op = "search_videos" => Len(req[p].args.videos) <= SearchCap

\* C30: the title of a conversation is written at most once even when two
\* user messages for the same untitled conversation are handled
\* concurrently: no interleaving lets a second write replace a title
\* already set.
C30_TitleNeverReplaced ==
    [][\A c \in conversations : \A d \in conversations' :
          (d.id = c.id /\ c.title # NULL) => d.title = c.title]_vars

\* C31: every stored chat message belongs to exactly one existing
\* conversation, and a conversation that survives a finished permanent
\* delete or empty-trash request has lost none of the messages that request
\* found stored for it, whatever the interleaving of delete, restore,
\* empty-trash and add_chat_message statements.
C31_MessagesHaveOneConversation ==
    /\ \A m \in chat_messages :
          Cardinality({c \in conversations : c.id = m.conversation_id}) = 1
    /\ \A p \in Procs :
          (req[p].pc = "done" /\ req[p].op \in {"delete", "empty_trash"})
             => \A m \in req[p].before.chat_messages :
                   m \notin chat_messages
                      => m.conversation_id \notin Ids(conversations)

\* C32: when a chat request has been answered on the fallback path, the
\* window of its session holds no assistant entry for the fallback reply,
\* the step that answers leaves every window as it was, and the fallback
\* reply is stored as an assistant message of the session.
C32_FallbackPersistedNotWindowed ==
    /\ [](\A p \in Procs :
            (ChatOf(p) /\ req[p].pc = "done" /\ req[p].source = "fallback")
               => /\ req[p].session_id \in DOMAIN conversation_memory
                     => \A i \in DOMAIN conversation_memory[req[p].session_id] :
                           conversation_memory[req[p].session_id][i]
                              # "Scoratis: " \o req[p].reply
                  /\ Persisted(req[p].session_id, "ai", req[p].reply))
    /\ [][\A p \in Procs :
            (req'[p].n # req[p].n \/ req[p].pc # "done")
               /\ ChatOf(p)' /\ req'[p].pc = "done" /\ req'[p].source = "fallback"
               => conversation_memory' = conversation_memory]_vars

\* the rows in the order in which they were appended (AUTOINCREMENT ids)
InAppendOrder(rows) ==
    LET ids == SortedSeq({m.id : m \in rows})
    IN  [i \in DOMAIN ids |-> MessageColumns(CHOOSE m \in rows : m.id = ids[i])]

\* C33: a reading of a session's messages returns them in the order in which
\* they were appended, timestamps ascending, also when a user message and
\* the reply to it were written within one timestamp unit.
C33_MessagesInAppendOrder ==
    \A p \in Procs :
        (req[p].pc = "done" /\ req[p].op = "get_conversation_messages")
           => /\ req[p].args.messages =
                    InAppendOrder(get_conversation_messages(req[p].session_id,
                                                            DefaultUser))
              /\ \A i, j \in DOMAIN req[p].args.messages :
                    i < j => req[p].args.messages[i].timestamp
                                <= req[p].args.messages[j].timestamp

\* C34: a chat request whose provider call succeeded returns the provider's
\* text with source "ai" and persists no assistant message other than that
\* text, whatever a clear-memory request of the same session does meanwhile.
C34_ClearNeverDivertsChat ==
    [][\A p \in Procs :
         (ChatOf(p) /\ req[p].provider = "ok" /\ req'[p].n = req[p].n)
            => /\ (req[p].pc # "done" /\ req'[p].pc = "done")
                     => /\ req'[p].source = "ai"
                        /\ req'[p].reply = req[p].response_text
               /\ (req[p].pc = "acm_insert" /\ req'[p].pc # "acm_insert"
                   /\ req[p].sender = "ai")
                     => req[p].message = req[p].response_text
               /\ req'[p].pc # "except"]_vars

\* the operations C35 names
OwnerOps ==
    {"delete_conversation", "restore_conversation", "empty_trash",
     "delete_folder", "delete_journal", "share_journal"}

\* the rows of a table snapshot that belong to an owner other than user_id;
\* a message belongs to the owner of its conversation
OthersRows(rows, user_id) == {x \in rows : x.user_id # user_id}

OthersMessages(tables, user_id) ==
    {m \in tables.chat_messages :
        \E c \in OthersRows(tables.conversations, user_id) : c.id = m.conversation_id}

\* C35: a delete_conversation, restore_conversation, empty_trash,
\* delete_folder, delete_journal or share_journal call made for owner u
\* leaves the conversations, messages, journals and folders of every other
\* owner as they were, whatever id it is given.
C35_OwnerIsolation ==
    \A p \in Procs :
        (req[p].pc = "done" /\ req[p].op \in OwnerOps)
           => LET u == req[p].args.user_id
                  before == req[p].before
              IN  /\ OthersRows(conversations, u) = OthersRows(before.conversations, u)
                  /\ OthersMessages(OwnerTables, u) = OthersMessages(before, u)
                  /\ OthersRows(journals, u) = OthersRows(before.journals, u)
                  /\ OthersRows(folders, u) = OthersRows(before.folders, u)

\* C36: when a chat request that persisted its messages has been answered,
\* the conversation holding them is active and in the default listing, and
\* no message is ever inserted into a conversation that is in the trash.
C36_MessagesNeverIntoTrash ==
    /\ [](\A p \in Procs :
            (ChatOf(p) /\ req[p].pc = "done" /\ req[p].conversation_id # 0)
               => \E c \in HistoryListing :
                     /\ c.id = req[p].conversation_id
                     /\ c.is_deleted = FALSE)
    /\ [][\A m \in chat_messages' \ chat_messages :
            \A c \in conversations : c.id = m.conversation_id => c.is_deleted = FALSE]_vars

\* the window entry made of a stored message
EntryOf(m) == (IF m.sender = "user" THEN "Human: " ELSE "Scoratis: ") \o m.message

\* C37: the context a chat request hands to the provider holds no text of
\* a purged conversation: each of its entries is backed by a message that
\* is still stored for the session, entry for entry.
C37_PurgedTextNotInContext ==
    \A p \in Procs :
        (ChatOf(p) /\ req[p].pc = "provider")
           => \A i \in DOMAIN req[p].context :
                 Cardinality({k \in DOMAIN req[p].context :
                                 req[p].context[k] = req[p].context[i]})
                    <= Cardinality({m \in chat_messages :
                                      /\ m.session_id = req[p].session_id
                                      /\ EntryOf(m) = req[p].context[i]})

\* the window of a session, in a one-element set; empty when it has none
WindowOf(memory, t) == IF t \in DOMAIN memory THEN {memory[t]} ELSE {}

\* C38: a step of a chat or clear-memory request for session s leaves the
\* window, the conversation records and the persisted messages of every
\* other session as they were, and the context built for s holds only
\* entries that were appended for s.
C38_SessionIsolation ==
    /\ [][\A p \in Procs :
            (req'[p] # req[p] /\ req'[p].op \in {"chat", "clear"})
               => \A t \in Sessions \ {req'[p].session_id} :
                     /\ WindowOf(conversation_memory', t) = WindowOf(conversation_memory, t)
                     /\ {c \in conversations' : c.session_id = t}
                           = {c \in conversations : c.session_id = t}
                     /\ {m \in chat_messages' : m.session_id = t}
                           = {m \in chat_messages : m.session_id = t}]_vars
    /\ [](\A p \in Procs :
            (ChatOf(p) /\ req[p].pc = "provider")
               => /\ req[p].session_id \in DOMAIN arrivals
                  /\ \A i \in DOMAIN req[p].context :
                        \E k \in DOMAIN arrivals[req[p].session_id] :
                            arrivals[req[p].session_id][k] = req[p].context[i])

C38_Witness ==
    \E p \in Procs :
        /\ ChatOf(p) /\ req[p].pc = "provider" /\ req[p].context # <<>>
        /\ nreq = 3
        /\ \E t \in Sessions \ {req[p].session_id} :
              /\ t \in DOMAIN conversation_memory
              /\ \E k \in DOMAIN conversation_memory[t] :
                    \A i \in DOMAIN req[p].context :
                        req[p].context[i] # conversation_memory[t][k]
              /\ \E c \in conversations : c.session_id = t
              /\ \E m \in chat_messages : m.session_id = t

\* C18: video history holds at most one row per (video id, owner) in every
\* reachable state: adding the same video id again for the same owner
\* replaces the prior entry.
C18_OneRowPerVideo ==
    \A a \in video_history : \A b \in video_history :
        (a.video_id = b.video_id /\ a.user_id = b.user_id) => a.id = b.id

====
